---- MODULE Spec2Model ----
(***************************************************************************)
(* Order retrieval and pagination of OrderRepository                       *)
(* (src/src/services/shop.services.ts).                                    *)
(*                                                                         *)
(* Text is a sequence of character codes (ASCII), so that the cursor       *)
(* token is built and taken apart character by character: JSON.stringify,  *)
(* base64, base64 decoding, JSON.parse, Date#toISOString and Date parsing  *)
(* are each computed, none is the identity.                                *)
(*                                                                         *)
(* A Date is [day, ms]: whole days since 1970-01-01 and milliseconds       *)
(* within the day (the epoch-millisecond number of a JS Date split in two  *)
(* so that each part fits a machine integer).  InvalidDate is the NaN      *)
(* date.                                                                   *)
(***************************************************************************)
EXTENDS Integers, Sequences, FiniteSets, TLC

----------------------------------------------------------------------------
(* Bounds of the model.                                                    *)

MaxOrders == 4
MaxLimit == 2
MaxIdLen == 2

----------------------------------------------------------------------------
(* Text helpers.                                                           *)

RECURSIVE Concat(_)
Concat(ss) == IF ss = << >> THEN << >> ELSE Head(ss) \o Concat(Tail(ss))

\* Lexicographic order on text, the order of a text column.
RECURSIVE LexLess(_, _)
LexLess(a, b) ==
    IF b = << >> THEN FALSE
    ELSE IF a = << >> THEN TRUE
    ELSE IF Head(a) # Head(b) THEN Head(a) < Head(b)
    ELSE LexLess(Tail(a), Tail(b))

ToLower(c) == IF c \in 65..90 THEN c + 32 ELSE c

LowerText(s) == [i \in 1..Len(s) |-> ToLower(s[i])]

\* { contains: needle, mode: "insensitive" }
ContainsInsensitive(hay, needle) ==
    \E i \in 1..(Len(hay) - Len(needle) + 1) :
        LowerText(SubSeq(hay, i, i + Len(needle) - 1)) = LowerText(needle)

----------------------------------------------------------------------------
(* Dates.                                                                  *)

InvalidDate == [day |-> -1, ms |-> -1]

\* The value of a nullable DateTime column that holds null.
NullTime == [day |-> -1, ms |-> 0]

IsValidDate(d) == d # InvalidDate

DateLess(a, b) == a.day < b.day \/ (a.day = b.day /\ a.ms < b.ms)

DateLeq(a, b) == a = b \/ DateLess(a, b)

\* Civil date of a day number (proleptic Gregorian calendar, days >= 0).
CivilFromDays(days) ==
    LET z   == days + 719468
        era == z \div 146097
        doe == z - era * 146097
        yoe == (doe - doe \div 1460 + doe \div 36524 - doe \div 146096) \div 365
        doy == doe - (365 * yoe + yoe \div 4 - yoe \div 100)
        mp  == (5 * doy + 2) \div 153
        d   == doy - (153 * mp + 2) \div 5 + 1
        m   == IF mp < 10 THEN mp + 3 ELSE mp - 9
        y   == yoe + era * 400 + (IF m <= 2 THEN 1 ELSE 0)
    IN  [year |-> y, month |-> m, date |-> d]

DaysFromCivil(y0, m, d) ==
    LET y   == IF m <= 2 THEN y0 - 1 ELSE y0
        era == y \div 400
        yoe == y - era * 400
        mp  == IF m > 2 THEN m - 3 ELSE m + 9
        doy == (153 * mp + 2) \div 5 + d - 1
        doe == yoe * 365 + yoe \div 4 - yoe \div 100 + doy
    IN  era * 146097 + doe - 719468

IsLeapYear(y) == (y % 4 = 0 /\ y % 100 # 0) \/ y % 400 = 0

DaysInMonth(y, m) ==
    IF m = 2 THEN (IF IsLeapYear(y) THEN 29 ELSE 28)
    ELSE IF m \in {4, 6, 9, 11} THEN 30 ELSE 31

Digit(n) == 48 + n

IsDigit(c) == c \in 48..57

Pad2(n) == << Digit((n \div 10) % 10), Digit(n % 10) >>

Pad3(n) == << Digit((n \div 100) % 10) >> \o Pad2(n)

Pad4(n) == << Digit((n \div 1000) % 10) >> \o Pad3(n)

\* Date.prototype.toISOString of a valid date of the years 1970..9999:
\* YYYY-MM-DDTHH:mm:ss.sssZ
toISOStringTruncated(d) ==
    LET c == CivilFromDays(d.day)
        s == d.ms \div 1000
    IN  Pad4(c.year) \o <<45>> \o Pad2(c.month) \o <<45>> \o Pad2(c.date)
        \o <<84>> \o Pad2(s \div 3600) \o <<58>> \o Pad2((s \div 60) % 60)
        \o <<58>> \o Pad2(s % 60) \o <<46>> \o Pad3(0) \o <<90>>

toISOString(d) ==
    LET c == CivilFromDays(d.day)
        s == d.ms \div 1000
    IN  Pad4(c.year) \o <<45>> \o Pad2(c.month) \o <<45>> \o Pad2(c.date)
        \o <<84>> \o Pad2(s \div 3600) \o <<58>> \o Pad2((s \div 60) % 60)
        \o <<58>> \o Pad2(s % 60) \o <<46>> \o Pad3(d.ms % 1000) \o <<90>>

Num2(s, i) == (s[i] - 48) * 10 + (s[i + 1] - 48)

\* new Date(value) for a value taken out of the parsed cursor: a text in the
\* format toISOString writes gives that instant; undefined and any other
\* text give the invalid date.
NewDate(v) ==
    IF v.kind # "string" THEN InvalidDate
    ELSE LET s == v.text IN
      IF \/ Len(s) # 24
         \/ s[5] # 45 \/ s[8] # 45 \/ s[11] # 84 \/ s[14] # 58
         \/ s[17] # 58 \/ s[20] # 46 \/ s[24] # 90
         \/ \E i \in {1, 2, 3, 4, 6, 7, 9, 10, 12, 13, 15, 16, 18, 19, 21, 22, 23} :
               ~IsDigit(s[i])
      THEN InvalidDate
      ELSE LET y  == Num2(s, 1) * 100 + Num2(s, 3)
               mo == Num2(s, 6)
               dd == Num2(s, 9)
               h  == Num2(s, 12)
               mi == Num2(s, 15)
               se == Num2(s, 18)
               ml == (s[21] - 48) * 100 + Num2(s, 22)
           IN  IF \/ mo \notin 1..12
                  \/ dd < 1 \/ dd > DaysInMonth(y, mo)
                  \/ h > 23 \/ mi > 59 \/ se > 59
               THEN InvalidDate
               ELSE [day |-> DaysFromCivil(y, mo, dd),
                     ms  |-> ((h * 60 + mi) * 60 + se) * 1000 + ml]

----------------------------------------------------------------------------
(* JavaScript values, as far as a parsed cursor can hold them.             *)

Undefined == [kind |-> "undefined", text |-> << >>, items |-> << >>]

Null == [kind |-> "null", text |-> << >>, items |-> << >>]

Number == [kind |-> "number", text |-> << >>, items |-> << >>]

Str(t) == [kind |-> "string", text |-> t, items |-> << >>]

Arr(xs) == [kind |-> "array", text |-> << >>, items |-> xs]

\* value[k] in JavaScript; ok = FALSE is the TypeError of null[k].
Index(v, k) ==
    IF v.kind = "null" THEN [ok |-> FALSE, value |-> Undefined]
    ELSE IF v.kind = "array" /\ k + 1 <= Len(v.items)
         THEN [ok |-> TRUE, value |-> v.items[k + 1]]
    ELSE IF v.kind = "string" /\ k + 1 <= Len(v.text)
         THEN [ok |-> TRUE, value |-> Str(<< v.text[k + 1] >>)]
    ELSE [ok |-> TRUE, value |-> Undefined]

----------------------------------------------------------------------------
(* JSON.                                                                   *)

\* The quoted form of a text: quote and backslash are escaped.
RECURSIVE JsonEscape(_)
JsonEscape(t) ==
    IF t = << >> THEN << >>
    ELSE (IF Head(t) \in {34, 92} THEN << 92, Head(t) >> ELSE << Head(t) >>)
         \o JsonEscape(Tail(t))

JsonQuote(t) == <<34>> \o JsonEscape(t) \o <<34>>

\* JSON.stringify([a, b]) of two texts.
JsonStringifyPair(a, b) == <<91>> \o JsonQuote(a) \o <<44>> \o JsonQuote(b) \o <<93>>

\* Reads a string literal whose opening quote is at s[i - 1]; next is the
\* index after the closing quote.
RECURSIVE ParseStringBody(_, _, _)
ParseStringBody(s, i, acc) ==
    IF i > Len(s) THEN [ok |-> FALSE, text |-> << >>, next |-> i]
    ELSE IF s[i] = 34 THEN [ok |-> TRUE, text |-> acc, next |-> i + 1]
    ELSE IF s[i] = 92
         THEN IF i + 1 <= Len(s) /\ s[i + 1] \in {34, 92, 47}
              THEN ParseStringBody(s, i + 2, Append(acc, s[i + 1]))
              ELSE [ok |-> FALSE, text |-> << >>, next |-> i]
    ELSE IF s[i] < 32 THEN [ok |-> FALSE, text |-> << >>, next |-> i]
    ELSE ParseStringBody(s, i + 1, Append(acc, s[i]))

\* Reads the elements of an array of string literals, s[i] being the first
\* character of an element.
RECURSIVE ParseElements(_, _, _)
ParseElements(s, i, acc) ==
    IF i > Len(s) \/ s[i] # 34 THEN [ok |-> FALSE, value |-> Undefined]
    ELSE LET r == ParseStringBody(s, i + 1, << >>) IN
         IF ~r.ok \/ r.next > Len(s) THEN [ok |-> FALSE, value |-> Undefined]
         ELSE IF s[r.next] = 93
              THEN IF r.next = Len(s)
                   THEN [ok |-> TRUE, value |-> Arr(Append(acc, Str(r.text)))]
                   ELSE [ok |-> FALSE, value |-> Undefined]
         ELSE IF s[r.next] = 44
              THEN ParseElements(s, r.next + 1, Append(acc, Str(r.text)))
         ELSE [ok |-> FALSE, value |-> Undefined]

\* JSON.parse for the texts of this model: null, a number written in digits,
\* a string literal, an array of string literals.  ok = FALSE is the
\* SyntaxError every other text of the model raises.
JsonParse(s) ==
    IF s = << 110, 117, 108, 108 >> THEN [ok |-> TRUE, value |-> Null]
    ELSE IF s # << >> /\ (\A i \in 1..Len(s) : IsDigit(s[i]))
            /\ (Len(s) = 1 \/ s[1] # 48)
         THEN [ok |-> TRUE, value |-> Number]
    ELSE IF s # << >> /\ s[1] = 34
         THEN LET r == ParseStringBody(s, 2, << >>) IN
              IF r.ok /\ r.next = Len(s) + 1
              THEN [ok |-> TRUE, value |-> Str(r.text)]
              ELSE [ok |-> FALSE, value |-> Undefined]
    ELSE IF s = << 91, 93 >> THEN [ok |-> TRUE, value |-> Arr(<< >>)]
    ELSE IF s # << >> /\ s[1] = 91 THEN ParseElements(s, 2, << >>)
    ELSE [ok |-> FALSE, value |-> Undefined]

----------------------------------------------------------------------------
(* Base64 (Buffer).                                                        *)

B64Char(v) ==
    IF v < 26 THEN 65 + v
    ELSE IF v < 52 THEN 97 + (v - 26)
    ELSE IF v < 62 THEN 48 + (v - 52)
    ELSE IF v = 62 THEN 43 ELSE 47

\* The value of a base64 character, -1 for a character outside the alphabet
\* (the decoder also accepts the URL-safe - and _).
B64Val(c) ==
    IF c \in 65..90 THEN c - 65
    ELSE IF c \in 97..122 THEN c - 97 + 26
    ELSE IF c \in 48..57 THEN c - 48 + 52
    ELSE IF c \in {43, 45} THEN 62
    ELSE IF c \in {47, 95} THEN 63
    ELSE -1

\* Buffer.from(text).toString("base64") of a text of ASCII characters.
RECURSIVE Base64Encode(_)
Base64Encode(b) ==
    IF b = << >> THEN << >>
    ELSE IF Len(b) = 1
         THEN << B64Char(b[1] \div 4), B64Char((b[1] % 4) * 16), 61, 61 >>
    ELSE IF Len(b) = 2
         THEN << B64Char(b[1] \div 4),
                 B64Char((b[1] % 4) * 16 + b[2] \div 16),
                 B64Char((b[2] % 16) * 4), 61 >>
    ELSE << B64Char(b[1] \div 4),
            B64Char((b[1] % 4) * 16 + b[2] \div 16),
            B64Char((b[2] % 16) * 4 + b[3] \div 64),
            B64Char(b[3] % 64) >>
         \o Base64Encode(SubSeq(b, 4, Len(b)))

\* The 6-bit values of the characters up to the first =, characters outside
\* the alphabet dropped.
RECURSIVE B64Values(_)
B64Values(t) ==
    IF t = << >> \/ Head(t) = 61 THEN << >>
    ELSE IF B64Val(Head(t)) < 0 THEN B64Values(Tail(t))
    ELSE << B64Val(Head(t)) >> \o B64Values(Tail(t))

RECURSIVE B64Bytes(_)
B64Bytes(v) ==
    IF Len(v) < 2 THEN << >>
    ELSE IF Len(v) = 2 THEN << v[1] * 4 + v[2] \div 16 >>
    ELSE IF Len(v) = 3
         THEN << v[1] * 4 + v[2] \div 16, (v[2] % 16) * 16 + v[3] \div 4 >>
    ELSE << v[1] * 4 + v[2] \div 16,
            (v[2] % 16) * 16 + v[3] \div 4,
            (v[3] % 4) * 64 + v[4] >>
         \o B64Bytes(SubSeq(v, 5, Len(v)))

\* Buffer.from(token, "base64").toString("utf-8"): never throws; a byte that
\* is no ASCII character reads as U+FFFD.
Base64Decode(t) ==
    LET b == B64Bytes(B64Values(t))
    IN  [i \in 1..Len(b) |-> IF b[i] < 128 THEN b[i] ELSE 65533]

----------------------------------------------------------------------------
(* The order table and query objects.                                      *)

\* An object with no key, {}.
EmptyObject == [k \in {} |-> 0]

\* A spread in which a non-empty b replaces a altogether.
SpreadSecondOnly(a, b) == IF DOMAIN b = {} THEN a ELSE b

\* { ...a, ...b }: the keys of both, b's value where both have the key.
Spread(a, b) == [k \in (DOMAIN a) \cup (DOMAIN b) |-> IF k \in DOMAIN b THEN b[k] ELSE a[k]]

\* obj.key = value
Put(obj, key, value) == [k \in (DOMAIN obj) \cup {key} |-> IF k = key THEN value ELSE obj[k]]

\* if (x): undefined and the empty string are falsy.
Truthy(v) == v.kind = "string" /\ v.text # << >>

\* The three-way text search: display_id, delivery_address_snapshot and the
\* user's email, each contains / insensitive.
TextMatch(o, term) ==
    \/ ContainsInsensitive(o.display_id, term)
    \/ ContainsInsensitive(o.delivery_address_snapshot, term)
    \/ ContainsInsensitive(o.email, term)

\* A cursor range without the tie-break branch.
CursorRangeNoTieBreak(o, d, v) == DateLess(o.created_at, d)

\* The manually built cursor range: created_at < d, or created_at = d and
\* id < v (an undefined operand of lt is no condition).
CursorRange(o, d, v) ==
    \/ DateLess(o.created_at, d)
    \/ /\ o.created_at = d
       /\ (v.kind = "string" => LexLess(o.id, v.text))

\* Does the row satisfy the where object?  The keys are conjoined.
Matches(o, w) ==
    /\ ("shop_id" \in DOMAIN w => o.shop_id = w.shop_id)
    /\ ("order_status" \in DOMAIN w => o.order_status = w.order_status)
    /\ ("created_at" \in DOMAIN w =>
            /\ DateLeq(w.created_at.gte, o.created_at)
            /\ DateLeq(o.created_at, w.created_at.lte))
    /\ ("OR" \in DOMAIN w =>
            IF w.OR.kind = "text" THEN TextMatch(o, w.OR.term)
            ELSE CursorRange(o, w.OR.date, w.OR.id))

\* A Date object that is invalid is refused by the client before any query
\* is sent: the call throws.
WhereIsInvalid(w) ==
    "OR" \in DOMAIN w /\ w.OR.kind = "cursor" /\ ~IsValidDate(w.OR.date)

\* (created_at, id) order, descending: a comes before b.
Before(a, b) ==
    \/ DateLess(b.created_at, a.created_at)
    \/ (a.created_at = b.created_at /\ LexLess(b.id, a.id))

\* orderBy: [{ created_at: "desc" }, { id: "desc" }]
RECURSIVE SortDesc(_)
SortDesc(S) ==
    IF S = {} THEN << >>
    ELSE LET x == CHOOSE y \in S : \A z \in S \ {y} : Before(y, z)
         IN  << x >> \o SortDesc(S \ {x})

\* orderBy: { created_at: desc }: every sequence of the rows that is
\* non-increasing in created_at; rows of equal created_at come in any order.
RECURSIVE Orderings(_)
Orderings(S) ==
    IF S = {} THEN { << >> }
    ELSE UNION { { << x >> \o t : t \in Orderings(S \ {x}) } :
                 x \in { y \in S : \A z \in S : ~DateLess(y.created_at, z.created_at) } }

Take(rows, n) == SubSeq(rows, 1, IF n < Len(rows) THEN n ELSE Len(rows))

\* cursor: { id }, skip: 1 -- the rows after the row whose id is the cursor;
\* no row when no row of the result has that id.
AfterCursor(rows, id) ==
    IF \E i \in 1..Len(rows) : rows[i].id = id
    THEN LET i == CHOOSE j \in 1..Len(rows) : rows[j].id = id
         IN  SubSeq(rows, i + 1, Len(rows))
    ELSE << >>

----------------------------------------------------------------------------
(* The cursor token of the search listing.                                 *)

\* Buffer.from(JSON.stringify([created_at.toISOString(), id])).toString("base64")
EncodeCursor(created_at, id) ==
    Base64Encode(JsonStringifyPair(toISOString(created_at), id))

\* The try block of the search listing: the token is decoded and parsed and
\* the range condition { OR: [...] } is built from cursorData[0] and
\* cursorData[1]; a throw inside it leaves the condition {}.
CursorCondition(cursor) ==
    IF ~Truthy(cursor) THEN EmptyObject
    ELSE LET parsed == JsonParse(Base64Decode(cursor.text)) IN
         IF ~parsed.ok THEN EmptyObject
         ELSE LET c0 == Index(parsed.value, 0)
                  c1 == Index(parsed.value, 1)
              IN  IF ~c0.ok \/ ~c1.ok THEN EmptyObject
                  ELSE [OR |-> [kind |-> "cursor",
                                date |-> NewDate(c0.value),
                                id   |-> c1.value]]

----------------------------------------------------------------------------
(* The two listings.  A result is [orders, nextCursor, failed]; failed     *)
(* stands for the rejected promise of a call that threw.                   *)

NoRange == [present |-> FALSE, from |-> InvalidDate, to |-> InvalidDate]

NoStatus == "undefined"

Failure == [orders |-> << >>, nextCursor |-> Undefined, failed |-> TRUE]

\* The where object both listings build from shop_id, orderStatus, dateRange
\* and searchTerm.
BuildWhere(opts) ==
    LET w0 == [shop_id |-> opts.shop_id]
        w1 == IF opts.orderStatus # NoStatus
              THEN Put(w0, "order_status", opts.orderStatus) ELSE w0
        w2 == IF opts.dateRange.present
              THEN Put(w1, "created_at",
                       [gte |-> opts.dateRange.from, lte |-> opts.dateRange.to])
              ELSE w1
    IN  IF Truthy(opts.searchTerm)
        THEN Put(w2, "OR", [kind |-> "text", term |-> opts.searchTerm.text])
        ELSE w2

\* The search listing, from "Use Prisma for search" to its return.
SearchListing(store, opts) ==
    LET where == Spread(BuildWhere(opts), CursorCondition(opts.cursor))
        rows  == Take(SortDesc({o \in store : Matches(o, where)}), opts.limit + 1)
    IN  IF WhereIsInvalid(where) THEN Failure
        ELSE IF Len(rows) > opts.limit
        THEN LET lastOrder == rows[opts.limit]
             IN  [orders     |-> SubSeq(rows, 1, Len(rows) - 1),
                  nextCursor |-> Str(EncodeCursor(lastOrder.created_at, lastOrder.id)),
                  failed     |-> FALSE]
        ELSE [orders |-> rows, nextCursor |-> Undefined, failed |-> FALSE]

\* getPaginatedShopOrdersFromDB, the rows of the table coming in the order
\* sorted (one of the orders orderBy created_at desc allows).
FromDBListing(sorted, opts) ==
    LET rows == Take(IF Truthy(opts.cursor)
                     THEN AfterCursor(sorted, opts.cursor.text)
                     ELSE sorted,
                     opts.limit + 1)
    IN  IF Len(rows) > opts.limit
        THEN LET nextItem == rows[Len(rows)]
             IN  [orders     |-> SubSeq(rows, 1, Len(rows) - 1),
                  nextCursor |-> Str(nextItem.id),
                  failed     |-> FALSE]
        ELSE [orders |-> rows, nextCursor |-> Undefined, failed |-> FALSE]

\* Every result getPaginatedShopOrdersFromDB can return.
getPaginatedShopOrdersFromDB(store, opts) ==
    { FromDBListing(sorted, opts) :
        sorted \in Orderings({o \in store : Matches(o, BuildWhere(opts))}) }

\* A selection that takes only an absent search term for no search.
StrategyOfAbsentOnly(opts) == IF opts.searchTerm = Undefined THEN "A" ELSE "B"

\* if (!searchTerm): the plain listing ("A") when the search term is absent
\* or the empty string, the search listing ("B") otherwise.
StrategyOf(opts) == IF ~Truthy(opts.searchTerm) THEN "A" ELSE "B"

\* Every result getPaginatedShopOrders can return: without a search term it
\* hands shop_id, limit, cursor, orderStatus and dateRange to
\* getPaginatedShopOrdersFromDB.
getPaginatedShopOrders(store, opts) ==
    IF StrategyOf(opts) = "A"
    THEN getPaginatedShopOrdersFromDB(store, [opts EXCEPT !.searchTerm = Undefined])
    ELSE { SearchListing(store, opts) }

----------------------------------------------------------------------------
(* State.                                                                  *)

VARIABLES
    orders,   \* the rows of the order table
    request,  \* shop_id, limit, searchTerm, orderStatus, dateRange of a caller
    cursor,   \* the cursor the caller passes with the next call
    walk,     \* the calls of the caller's walk so far: cursor passed, result
    probe,    \* a single call made with a cursor the listing never issued
    pc,       \* "ready", "done" (no nextCursor), "failed", "probed"
    codec,    \* a cursor token under construction and its decoding
    started,  \* the rows of the order table when the caller's walk started
    lastOp,   \* the last point lookup, read or status mutation and its outcome
    race,     \* two updateStatus calls in flight and the writes applied
    users,    \* the rows of the user table
    calls,    \* the admin action calls made: caller, target, position, outcome
    search,   \* a catalogue search: dataset, query and the pages fetched
    worker,   \* the worker process: signals, running shutdowns, closes, exit
    boot,     \* a run of the container entrypoint: environment, steps taken
    login     \* a loginAction call: credentials, what signIn does, response

\* The variables of the point lookups, reads and status mutations.
storeVars == << started, lastOp, race >>

\* The variables of the admin actions, the catalogue search, the worker
\* process, the entrypoint and the login action.
sideVars == << users, calls, search, worker, boot, login >>

vars == << orders, request, cursor, walk, probe, pc, codec, started, lastOp, race,
           users, calls, search, worker, boot, login >>

----------------------------------------------------------------------------
(* The inputs.                                                             *)

\* The ids of the orders the table can hold: "2", "3", "9", "10", "7", "1".
IdPool == << <<50>>, <<51>>, <<57>>, <<49, 48>>, <<55>>, <<49>> >>

\* 2024-03-01T09:59:00.000Z, 2024-03-01T10:00:00.000Z and
\* 2024-03-01T10:00:00.250Z
T0959 == [day |-> 19783, ms |-> 35940000]

T1000 == [day |-> 19783, ms |-> 36000000]

T1000b == [day |-> 19783, ms |-> 36000250]

Times == {T0959, T1000, T1000b}

\* Shop, status, delivery address ("NIT Hostel", "Main Road") and user email
\* ("bob@x.io", "amy@nit.in") of the k-th order.
Profiles ==
    << [shop_id |-> "s1", order_status |-> "PENDING",
        delivery_address_snapshot |-> <<78, 73, 84, 32, 72, 111, 115, 116, 101, 108>>,
        email |-> <<98, 111, 98, 64, 120, 46, 105, 111>>],
       [shop_id |-> "s1", order_status |-> "PENDING",
        delivery_address_snapshot |-> <<77, 97, 105, 110, 32, 82, 111, 97, 100>>,
        email |-> <<98, 111, 98, 64, 120, 46, 105, 111>>],
       [shop_id |-> "s1", order_status |-> "COMPLETED",
        delivery_address_snapshot |-> <<77, 97, 105, 110, 32, 82, 111, 97, 100>>,
        email |-> <<97, 109, 121, 64, 110, 105, 116, 46, 105, 110>>],
       [shop_id |-> "s2", order_status |-> "PENDING",
        delivery_address_snapshot |-> <<78, 73, 84, 32, 72, 111, 115, 116, 101, 108>>,
        email |-> <<98, 111, 98, 64, 120, 46, 105, 111>>] >>

ProfileOf(k) == Profiles[((k - 1) % Len(Profiles)) + 1]

\* The k-th order, created at t; its display_id is "ORD-" and the id.
MkOrder(k, t) ==
    [id |-> IdPool[k], created_at |-> t,
     shop_id |-> ProfileOf(k).shop_id, order_status |-> ProfileOf(k).order_status,
     display_id |-> <<79, 82, 68, 45>> \o IdPool[k],
     delivery_address_snapshot |-> ProfileOf(k).delivery_address_snapshot,
     email |-> ProfileOf(k).email,
     user_id |-> ProfileOf(k).email,
     assigned_to |-> Null, actual_delivery_time |-> NullTime]

\* Any of the first MaxOrders orders, each created at any of the times.
Datasets ==
    UNION { { { MkOrder(k, f[k]) : k \in K } : f \in [K -> Times] } :
            K \in SUBSET (1..MaxOrders) }

\* "ord" is part of every display_id; "nit" is part of some addresses and
\* emails.
TermOrd == <<111, 114, 100>>

TermNit == <<110, 105, 116>>

SearchTerms == { Undefined, Str(<< >>), Str(TermOrd), Str(TermNit) }

DateRanges == { NoRange, [present |-> TRUE, from |-> T1000, to |-> T1000b] }

Requests ==
    [shop_id : {"s1"}, limit : 1..MaxLimit, searchTerm : SearchTerms,
     orderStatus : {NoStatus, "PENDING"}, dateRange : DateRanges]

\* Cursors no listing issued: "zz", "NQ==" (base64 of 5), "bnVsbA==" (base64
\* of null).
BadCursors ==
    { <<122, 122>>, <<78, 81, 61, 61>>, <<98, 110, 86, 115, 98, 65, 61, 61>> }

\* The options object of a call.
Opts(req, c) ==
    [shop_id |-> req.shop_id, limit |-> req.limit, cursor |-> c,
     searchTerm |-> req.searchTerm, orderStatus |-> req.orderStatus,
     dateRange |-> req.dateRange]

NoProbe == [made |-> FALSE, cursor |-> Undefined, result |-> Failure]

CodecIdle == [pc |-> "idle", created_at |-> InvalidDate, id |-> << >>,
              token |-> << >>, decoded |-> EmptyObject]

NoOp == [name |-> "none"]

NoRace == [calls |-> << >>, applied |-> << >>]

\* No point lookup, read or status mutation has been made.
StoreIdle == started = {} /\ lastOp = NoOp /\ race = NoRace

NoCalls == << >>

\* Not part of the run.
Off == [pc |-> "off"]

\* No admin action, search, worker, entrypoint or login is part of the run.
SideIdle ==
    /\ users = {}
    /\ calls = NoCalls
    /\ search = Off
    /\ worker = Off
    /\ boot = Off
    /\ login = Off

----------------------------------------------------------------------------
(* The listing walk.                                                       *)

\* A caller gives up after as many calls as the table can hold orders.
MaxCalls == MaxOrders

Init ==
    /\ orders \in Datasets
    /\ request \in Requests
    /\ cursor = Undefined
    /\ walk = << >>
    /\ probe = NoProbe
    /\ pc = "ready"
    /\ codec = CodecIdle
    /\ StoreIdle
    /\ SideIdle

\* The caller asks for the next page, passing the nextCursor of the
\* previous page back.
ListPage ==
    /\ pc = "ready"
    /\ Len(walk) < MaxCalls
    /\ \E r \in getPaginatedShopOrders(orders, Opts(request, cursor)) :
          /\ walk' = Append(walk, [cursor |-> cursor, result |-> r])
          /\ cursor' = r.nextCursor
          /\ pc' = IF r.failed THEN "failed"
                   ELSE IF r.nextCursor = Undefined THEN "done" ELSE "ready"
    /\ UNCHANGED << orders, request, probe, codec, storeVars, sideVars >>

Next == ListPage

Spec == Init /\ [][Next]_vars

\* The walks of callers that search: the request carries a search term.
SearchInit == Init /\ Truthy(request.searchTerm)

SpecSearch == SearchInit /\ [][Next]_vars

----------------------------------------------------------------------------
(* A first call made with a cursor the listing never issued.               *)

MaxProbeOrders == 2

ProbeInit ==
    /\ orders \in { d \in Datasets : Cardinality(d) <= MaxProbeOrders }
    /\ request \in Requests
    /\ cursor = Undefined
    /\ walk = << >>
    /\ probe = NoProbe
    /\ pc = "ready"
    /\ codec = CodecIdle
    /\ StoreIdle
    /\ SideIdle

\* A caller passes a cursor of its own making with its first call.
ProbeCursor ==
    /\ pc = "ready"
    /\ \E c \in BadCursors :
        \E r \in getPaginatedShopOrders(orders, Opts(request, Str(c))) :
            probe' = [made |-> TRUE, cursor |-> Str(c), result |-> r]
    /\ pc' = "probed"
    /\ UNCHANGED << orders, request, cursor, walk, codec, storeVars, sideVars >>

ProbeNext == ProbeCursor

SpecProbe == ProbeInit /\ [][ProbeNext]_vars

----------------------------------------------------------------------------
(* The cursor codec on its own: a (created_at, id) pair is encoded as the  *)
(* search listing encodes the last order of a page, and the token is       *)
(* decoded as the search listing decodes the cursor of a call.             *)

\* Characters of an id: a, 9, -, quote, backslash.
IdChars == {97, 57, 45, 34, 92}

RECURSIVE TextsUpTo(_)
TextsUpTo(n) ==
    IF n = 0 THEN { << >> }
    ELSE TextsUpTo(n - 1)
         \cup { Append(t, c) : t \in { u \in TextsUpTo(n - 1) : Len(u) = n - 1 }, c \in IdChars }

CodecIds == TextsUpTo(MaxIdLen) \ { << >> }

\* 1970-01-01, 2000-02-29, 2023-12-31, 2024-02-29, 2024-03-01, 9999-12-31
\* and, within the day, the first and last millisecond and the values
\* around a whole second.
CodecDates ==
    [day : {0, 11016, 19722, 19782, 19783, 2932896},
     ms  : {0, 1, 999, 1000, 36000123, 86399999}]

CodecInit ==
    /\ orders = {}
    /\ request = [shop_id |-> "s1", limit |-> 1, searchTerm |-> Undefined,
                  orderStatus |-> NoStatus, dateRange |-> NoRange]
    /\ cursor = Undefined
    /\ walk = << >>
    /\ probe = NoProbe
    /\ pc = "codec"
    /\ codec \in [pc : {"new"}, created_at : CodecDates, id : CodecIds,
                  token : { << >> }, decoded : { EmptyObject }]
    /\ StoreIdle
    /\ SideIdle

\* nextCursor = Buffer.from(JSON.stringify([...])).toString("base64")
CodecEncode ==
    /\ codec.pc = "new"
    /\ codec' = [codec EXCEPT !.pc = "encoded",
                              !.token = EncodeCursor(codec.created_at, codec.id)]
    /\ UNCHANGED << orders, request, cursor, walk, probe, pc, storeVars, sideVars >>

\* The next call decodes the token it is passed.
CodecDecode ==
    /\ codec.pc = "encoded"
    /\ codec' = [codec EXCEPT !.pc = "decoded",
                              !.decoded = CursorCondition(Str(codec.token))]
    /\ UNCHANGED << orders, request, cursor, walk, probe, pc, storeVars, sideVars >>

CodecNext == CodecEncode \/ CodecDecode

SpecCodec == CodecInit /\ [][CodecNext]_vars

----------------------------------------------------------------------------
(* A listing walk while orders are being created.                          *)

\* create: the row of data is added to the order table.
create(store, data) == store \cup { data }

InsertInit ==
    /\ orders \in { d \in Datasets : Cardinality(d) <= MaxProbeOrders }
    /\ request \in Requests
    /\ cursor = Undefined
    /\ walk = << >>
    /\ probe = NoProbe
    /\ pc = "ready"
    /\ codec = CodecIdle
    /\ started = orders
    /\ lastOp = NoOp
    /\ race = NoRace
    /\ SideIdle

\* Between two page requests of the walk an order is created.
CreateOrder ==
    /\ pc = "ready"
    /\ Len(walk) >= 1
    /\ \E k \in 1..MaxOrders, t \in Times :
          /\ \A o \in orders : o.id # IdPool[k]
          /\ orders' = create(orders, MkOrder(k, t))
    /\ UNCHANGED << request, cursor, walk, probe, pc, codec, storeVars, sideVars >>

InsertNext == ListPage \/ CreateOrder

SpecInsert == InsertInit /\ [][InsertNext]_vars

----------------------------------------------------------------------------
(* A single call made with any cursor: none, one either listing issues     *)
(* for an order of any shop, or one no listing issued.                     *)

\* The id of a row (the cursor of the plain listing) and the token of a row
\* (the cursor of the search listing), for the rows of every shop.
IssuedCursors(store) ==
    { Str(o.id) : o \in store }
        \cup { Str(EncodeCursor(o.created_at, o.id)) : o \in store }

AnyCursors(store) ==
    { Undefined } \cup IssuedCursors(store) \cup { Str(c) : c \in BadCursors }

ListWithCursor ==
    /\ pc = "ready"
    /\ \E c \in AnyCursors(orders) :
        \E r \in getPaginatedShopOrders(orders, Opts(request, c)) :
            probe' = [made |-> TRUE, cursor |-> c, result |-> r]
    /\ pc' = "probed"
    /\ UNCHANGED << orders, request, cursor, walk, codec, storeVars, sideVars >>

AnyCursorNext == ListWithCursor

SpecAnyCursor == ProbeInit /\ [][AnyCursorNext]_vars

----------------------------------------------------------------------------
(* The point lookups, the reads and the status mutations of the order      *)
(* repository.  Each makes one call of the database client and awaits it;  *)
(* an outcome is [result, failed, calls, store]: what the caller gets,     *)
(* whether the promise is rejected, how many client calls were made, and   *)
(* the rows of the table afterwards.                                       *)

OrderStatuses == { "PENDING", "COMPLETED", "CANCELLED" }

Error == [kind |-> "error"]

\* A lookup that throws when no row has the id.
findUniqueOrThrow(store, id) ==
    IF \E o \in store : o.id = id
    THEN [kind |-> "order", row |-> CHOOSE o \in store : o.id = id]
    ELSE Error

\* findUnique({ where: { id } }): the row, or null when no row has the id.
findUnique(store, id) ==
    IF \E o \in store : o.id = id
    THEN [kind |-> "order", row |-> CHOOSE o \in store : o.id = id]
    ELSE Null

\* data: { order_status, assigned_to, actual_delivery_time } written to a
\* row; a field whose value is undefined is left as it is.
SetFields(row, data) ==
    [row EXCEPT !.order_status = data.order_status,
                !.assigned_to = IF data.assigned_to = Undefined THEN @ ELSE data.assigned_to,
                !.actual_delivery_time =
                    IF data.actual_delivery_time = Undefined THEN @
                    ELSE data.actual_delivery_time]

\* An update that refuses to leave COMPLETED or CANCELLED.
updateGuarded(store, id, data) ==
    IF \E o \in store : o.id = id /\ o.order_status = "PENDING"
    THEN LET old == CHOOSE o \in store : o.id = id
         IN  [result |-> [kind |-> "order", row |-> SetFields(old, data)],
              store  |-> (store \ {old}) \cup { SetFields(old, data) }]
    ELSE [result |-> Error, store |-> store]

\* update({ where: { id }, data }): the row is written and returned; the
\* call throws when no row has the id.
update(store, id, data) ==
    IF \E o \in store : o.id = id
    THEN LET old == CHOOSE o \in store : o.id = id
         IN  [result |-> [kind |-> "order", row |-> SetFields(old, data)],
              store  |-> (store \ {old}) \cup { SetFields(old, data) }]
    ELSE [result |-> Error, store |-> store]

\* An update that also clears the assignment of the rows it writes.
updateManyClearsAssignment(store, ids, order_status) ==
    [result |-> [kind |-> "count",
                 count |-> Cardinality({ o \in store : o.id \in ids })],
     store  |-> { IF o.id \in ids
                  THEN [o EXCEPT !.order_status = order_status, !.assigned_to = Null]
                  ELSE o : o \in store }]

\* An update of the rows whose id is not among ids.
updateManyNotIn(store, ids, order_status) ==
    [result |-> [kind |-> "count",
                 count |-> Cardinality({ o \in store : o.id \notin ids })],
     store  |-> { IF o.id \notin ids THEN [o EXCEPT !.order_status = order_status] ELSE o :
                  o \in store }]

\* An update that stops after the first row.
updateManyFirstRow(store, ids, order_status) ==
    LET hit == { o \in store : o.id \in ids } IN
    IF hit = {} THEN [result |-> [kind |-> "count", count |-> 0], store |-> store]
    ELSE LET first == CHOOSE o \in hit : \A p \in hit : o = p \/ LexLess(o.id, p.id)
         IN  [result |-> [kind |-> "count", count |-> 1],
              store  |-> (store \ {first})
                            \cup { [first EXCEPT !.order_status = order_status] }]

\* updateMany({ where: { id: { in: ids } }, data: { order_status } }): one
\* statement writes every row whose id is in ids; the count is the number
\* of rows it matched.
updateMany(store, ids, order_status) ==
    [result |-> [kind |-> "count",
                 count |-> Cardinality({ o \in store : o.id \in ids })],
     store  |-> { IF o.id \in ids THEN [o EXCEPT !.order_status = order_status] ELSE o :
                  o \in store }]

\* A call that is made again when it fails, the second attempt succeeding.
OneCallRetried(store, fails, effect) ==
    [result |-> effect.result,
     failed |-> effect.result = Error,
     calls  |-> IF fails THEN 2 ELSE 1,
     store  |-> effect.store]

\* A call whose writes stay when it fails.
OneCallKeepsWrites(store, fails, effect) ==
    IF fails
    THEN [result |-> Error, failed |-> TRUE, calls |-> 1, store |-> effect.store]
    ELSE [result |-> effect.result,
          failed |-> effect.result = Error,
          calls  |-> 1,
          store  |-> effect.store]

\* return / await of the one client call of a method, no try around it:
\* when the call fails (fails, or the client throws) the promise is
\* rejected with that failure and the table is as it was.
OneCall(store, fails, effect) ==
    IF fails
    THEN [result |-> Error, failed |-> TRUE, calls |-> 1, store |-> store]
    ELSE [result |-> effect.result,
          failed |-> effect.result = Error,
          calls  |-> 1,
          store  |-> effect.store]

getOrderById(store, order_id, fails) ==
    OneCall(store, fails, [result |-> findUnique(store, order_id), store |-> store])

findById(store, orderId, fails) ==
    OneCall(store, fails, [result |-> findUnique(store, orderId), store |-> store])

getOrdersByUserId(store, user_id, fails) ==
    OneCall(store, fails,
            [result |-> [kind |-> "orders", rows |-> { o \in store : o.user_id = user_id }],
             store  |-> store])

getOrdersByShopId(store, shop_id, fails) ==
    OneCall(store, fails,
            [result |-> [kind |-> "orders", rows |-> { o \in store : o.shop_id = shop_id }],
             store  |-> store])

getOrdersByIds(store, order_ids, fails) ==
    OneCall(store, fails,
            [result |-> [kind |-> "orders", rows |-> { o \in store : o.id \in order_ids }],
             store  |-> store])

updateStatus(store, order_id, order_status, assigned_to, actual_delivery_time, fails) ==
    OneCall(store, fails,
            update(store, order_id,
                   [order_status |-> order_status, assigned_to |-> assigned_to,
                    actual_delivery_time |-> actual_delivery_time]))

batchUpdateStatus(store, order_ids, order_status, fails) ==
    OneCall(store, fails, updateMany(store, order_ids, order_status))

\* count({ where }): the number of rows of the shop, of all rows when where
\* is undefined.
count(store, where, fails) ==
    OneCall(store, fails,
            [result |-> [kind |-> "count",
                         count |-> Cardinality({ o \in store :
                                       where # Undefined => o.shop_id = where.shop_id })],
             store  |-> store])

\* A listing call whose findMany may fail: every outcome it can have.
listShopOrders(store, opts, fails) ==
    { OneCall(store, fails,
              [result |-> IF r.failed THEN Error ELSE [kind |-> "page", page |-> r],
               store  |-> store]) :
        r \in getPaginatedShopOrders(store, opts) }

----------------------------------------------------------------------------
(* A caller of the repository makes a call and then one more.              *)

\* The ids callers pass: those of the orders of the pool, in the table or
\* not.
StoreIds == { IdPool[k] : k \in 1..MaxOrders }

IdSets == { s \in SUBSET StoreIds : Cardinality(s) <= MaxProbeOrders }

\* "d1"
Agent == Str(<<100, 49>>)

\* The optional arguments of updateStatus: none, assigned_to, both.
Assignments ==
    { [assigned_to |-> Undefined, actual_delivery_time |-> Undefined],
      [assigned_to |-> Agent, actual_delivery_time |-> Undefined],
      [assigned_to |-> Agent, actual_delivery_time |-> T1000b] }

ShopIds == { Profiles[i].shop_id : i \in 1..Len(Profiles) }

UserIds == { Profiles[i].email : i \in 1..Len(Profiles) }

\* count(): of a shop, or of the whole table.
CountWheres == { Undefined } \cup { [shop_id |-> s] : s \in ShopIds }

\* First-page requests of one order, without and with a search term.
StoreRequests ==
    { r \in Requests : /\ r.limit = 1
                       /\ r.orderStatus = NoStatus
                       /\ ~r.dateRange.present
                       /\ r.searchTerm \in { Undefined, Str(TermOrd) } }

StoreDatasets ==
    { d \in Datasets : /\ Cardinality(d) <= MaxProbeOrders
                       /\ \A o \in d : o.created_at = T1000 }

StoreInit ==
    /\ orders \in StoreDatasets
    /\ request = [shop_id |-> "s1", limit |-> 1, searchTerm |-> Undefined,
                  orderStatus |-> NoStatus, dateRange |-> NoRange]
    /\ cursor = Undefined
    /\ walk = << >>
    /\ probe = NoProbe
    /\ pc = "store"
    /\ codec = CodecIdle
    /\ StoreIdle
    /\ SideIdle

\* The call returns: the table is as the call left it, and the call, what
\* it was given, what it returned and the table before it are remembered;
\* again says that it repeats the call before it, which did not fail.
Returns(name, args, out) ==
    /\ orders' = out.store
    /\ lastOp' = [name |-> name, args |-> args, result |-> out.result,
                  failed |-> out.failed, calls |-> out.calls, pre |-> orders,
                  again |-> /\ lastOp.name = name
                            /\ lastOp.args = args
                            /\ ~lastOp.failed]
    /\ pc' = IF pc = "store" THEN "called" ELSE "done"
    /\ UNCHANGED << request, cursor, walk, probe, codec, started, race, sideVars >>

GetOrderById ==
    /\ pc \in { "store", "called" }
    /\ \E id \in StoreIds :
          Returns("getOrderById", [id |-> id], getOrderById(orders, id, FALSE))

FindById ==
    /\ pc \in { "store", "called" }
    /\ \E id \in StoreIds :
          Returns("findById", [id |-> id], findById(orders, id, FALSE))

GetOrdersByUserId ==
    /\ pc \in { "store", "called" }
    /\ \E u \in UserIds :
          Returns("getOrdersByUserId", [user_id |-> u], getOrdersByUserId(orders, u, FALSE))

GetOrdersByShopId ==
    /\ pc \in { "store", "called" }
    /\ \E s \in ShopIds :
          Returns("getOrdersByShopId", [shop_id |-> s], getOrdersByShopId(orders, s, FALSE))

GetOrdersByIds ==
    /\ pc \in { "store", "called" }
    /\ \E ids \in IdSets :
          Returns("getOrdersByIds", [ids |-> ids], getOrdersByIds(orders, ids, FALSE))

Count ==
    /\ pc \in { "store", "called" }
    /\ \E w \in CountWheres :
          Returns("count", [where |-> w], count(orders, w, FALSE))

UpdateStatus ==
    /\ pc \in { "store", "called" }
    /\ \E id \in StoreIds, s \in OrderStatuses, a \in Assignments, fails \in BOOLEAN :
          Returns("updateStatus",
                  [id |-> id, order_status |-> s, assigned_to |-> a.assigned_to,
                   actual_delivery_time |-> a.actual_delivery_time, fails |-> fails],
                  updateStatus(orders, id, s, a.assigned_to, a.actual_delivery_time, fails))

BatchUpdateStatus ==
    /\ pc \in { "store", "called" }
    /\ \E ids \in IdSets, s \in OrderStatuses, fails \in BOOLEAN :
          Returns("batchUpdateStatus",
                  [ids |-> ids, order_status |-> s, fails |-> fails],
                  batchUpdateStatus(orders, ids, s, fails))

ListShopOrders ==
    /\ pc \in { "store", "called" }
    /\ \E req \in StoreRequests, fails \in BOOLEAN :
        \E out \in listShopOrders(orders, Opts(req, Undefined), fails) :
          Returns("getPaginatedShopOrders", [request |-> req, fails |-> fails], out)

StoreNext ==
    \/ GetOrderById
    \/ FindById
    \/ GetOrdersByUserId
    \/ GetOrdersByShopId
    \/ GetOrdersByIds
    \/ Count
    \/ UpdateStatus
    \/ BatchUpdateStatus
    \/ ListShopOrders

SpecStore == StoreInit /\ [][StoreNext]_vars

----------------------------------------------------------------------------
(* Two updateStatus calls on one order in flight at once.  A call is sent  *)
(* (the caller is now awaiting the client) and later its statement is      *)
(* applied by the database and the call returns; the database applies the  *)
(* statements on one row one after the other, in either order.             *)

\* The statement of a call applied by the database and what the call
\* returns, were a write refused when the row changed since the call was
\* sent.
ApplyWriteIfUnchanged(store, call) ==
    IF findUnique(store, call.id) # call.seen
    THEN [result |-> Error, failed |-> TRUE, calls |-> 1, store |-> store]
    ELSE updateStatus(store, call.id, call.order_status, call.assigned_to,
                      call.actual_delivery_time, FALSE)

\* The statement of a call applied by the database and what the call
\* returns: updateStatus reads nothing before it writes and carries no
\* version of the row.
ApplyWrite(store, call) ==
    updateStatus(store, call.id, call.order_status, call.assigned_to,
                 call.actual_delivery_time, FALSE)

\* A call of updateStatus not yet sent.
NewCall(id, s, a) ==
    [id |-> id, order_status |-> s, assigned_to |-> a.assigned_to,
     actual_delivery_time |-> a.actual_delivery_time,
     pc |-> "new", seen |-> Null, result |-> Null, failed |-> FALSE]

RaceInit ==
    /\ orders \in StoreDatasets
    /\ request = [shop_id |-> "s1", limit |-> 1, searchTerm |-> Undefined,
                  orderStatus |-> NoStatus, dateRange |-> NoRange]
    /\ cursor = Undefined
    /\ walk = << >>
    /\ probe = NoProbe
    /\ pc = "race"
    /\ codec = CodecIdle
    /\ started = orders
    /\ lastOp = NoOp
    /\ SideIdle
    /\ \E o \in orders, s1 \in OrderStatuses, s2 \in OrderStatuses,
          a1 \in Assignments, a2 \in Assignments :
          race = [calls |-> << NewCall(o.id, s1, a1), NewCall(o.id, s2, a2) >>,
                  applied |-> << >>]

\* A caller calls updateStatus: the statement is on its way.
SendUpdate ==
    /\ pc = "race"
    /\ \E p \in 1..Len(race.calls) :
          /\ race.calls[p].pc = "new"
          /\ race' = [race EXCEPT !.calls[p].pc = "sent",
                                  !.calls[p].seen = findUnique(orders, race.calls[p].id)]
    /\ UNCHANGED << orders, request, cursor, walk, probe, pc, codec, started, lastOp, sideVars >>

\* The database applies the statement of a call and the call returns.
ApplyUpdate ==
    /\ pc = "race"
    /\ \E p \in 1..Len(race.calls) :
          /\ race.calls[p].pc = "sent"
          /\ LET out == ApplyWrite(orders, race.calls[p]) IN
                /\ orders' = out.store
                /\ race' = [race EXCEPT !.calls[p].pc = "returned",
                                        !.calls[p].result = out.result,
                                        !.calls[p].failed = out.failed,
                                        !.applied = Append(@, p)]
    /\ UNCHANGED << request, cursor, walk, probe, pc, codec, started, lastOp, sideVars >>

RaceNext == SendUpdate \/ ApplyUpdate

SpecRace == RaceInit /\ [][RaceNext]_vars

----------------------------------------------------------------------------
(* Listing calls of one request made one after the other on an unchanged   *)
(* table, each with no cursor or with the id of an order as cursor.        *)

MaxRepeat == 3

RepeatCursors(store) == { Undefined } \cup { Str(o.id) : o \in store }

ListAgain ==
    /\ pc = "ready"
    /\ Len(walk) < MaxRepeat
    /\ \E c \in RepeatCursors(orders) :
        \E r \in getPaginatedShopOrders(orders, Opts(request, c)) :
            walk' = Append(walk, [cursor |-> c, result |-> r])
    /\ UNCHANGED << orders, request, cursor, probe, pc, codec, storeVars, sideVars >>

RepeatNext == ListAgain

SpecRepeat == ProbeInit /\ [][RepeatNext]_vars

----------------------------------------------------------------------------
(* The admin actions on users.  A call runs verifyAdmin, then reads the    *)
(* target (makeUserAdminAction, removeUserAdminAction) or the users        *)
(* (getAllUsersAction, getUserStatsAction), then writes the target's role; *)
(* each await is a step, and the steps of two calls interleave.            *)

MaxAccounts == 2

\* "u0" is the id of no user.
AccountPool == << "u1", "u2", "u3", "u4" >>

AccountIds == { AccountPool[k] : k \in 1..MaxAccounts }

Roles == { "ADMIN", "USER" }

\* The user tables of the admin actions: every account, with any role.
RoleTables ==
    { { [id |-> a, role |-> f[a]] : a \in AccountIds } : f \in [AccountIds -> Roles] }

\* userRepository.findById(id): the row, or null.
UserFindById(table, id) ==
    IF \E u \in table : u.id = id
    THEN [kind |-> "user", row |-> CHOOSE u \in table : u.id = id]
    ELSE Null

\* userRepository.update(id, { role }): the row is written.
UserUpdate(table, id, role) ==
    { IF u.id = id THEN [u EXCEPT !.role = role] ELSE u : u \in table }

\* verifyAdmin(): the id of the signed-in user when that user is an ADMIN;
\* it throws UnauthorizedError when nobody is signed in and ForbiddenError
\* when the signed-in user is no ADMIN.
VerifyAdmin(table, session) ==
    IF session = "none" THEN [ok |-> FALSE, error |-> "UnauthorizedError", id |-> "none"]
    ELSE IF \E u \in table : u.id = session /\ u.role = "ADMIN"
    THEN [ok |-> TRUE, error |-> "none", id |-> session]
    ELSE [ok |-> FALSE, error |-> "ForbiddenError", id |-> "none"]

\* A catch block that turns every error into InternalServerError.
RethrownAsInternal(action, error) == "InternalServerError"

\* The catch block of an action: UnauthorizedError and ForbiddenError, and
\* in the two role actions NotFoundError, are thrown on as they are; any
\* other error becomes InternalServerError.
Rethrown(action, error) ==
    IF error \in { "UnauthorizedError", "ForbiddenError" } THEN error
    ELSE IF error = "NotFoundError" /\ action \in { "makeUserAdmin", "removeUserAdmin" }
    THEN error
    ELSE "InternalServerError"

\* The checks on the target that only refuse an unknown user.
TargetCheckNoRole(action, targetUser) ==
    IF targetUser = Null THEN "NotFoundError" ELSE "none"

\* The checks on the target read: unknown; already ADMIN (make); not an
\* ADMIN (remove).
TargetCheck(action, targetUser) ==
    IF targetUser = Null THEN "NotFoundError"
    ELSE IF action = "makeUserAdmin" /\ targetUser.row.role = "ADMIN" THEN "ForbiddenError"
    ELSE IF action = "removeUserAdmin" /\ targetUser.row.role # "ADMIN" THEN "ForbiddenError"
    ELSE "none"

AdminActions == { "getAllUsers", "makeUserAdmin", "removeUserAdmin", "getUserStats" }

\* A call not yet started: who is signed in, which action, which target;
\* denied is the error verifyAdmin threw, read the role of the target as
\* the call read it ("unknown" for null), error the error the call throws,
\* repo the repository calls made, wrote whether it wrote a role.
NewAction(action, session, target) ==
    [action |-> action, session |-> session, target |-> target,
     pc |-> "start", denied |-> "none", read |-> "none", error |-> "none",
     repo |-> << >>, wrote |-> FALSE]

ActionCalls ==
    { NewAction(a, s, t) :
        a \in { "makeUserAdmin", "removeUserAdmin" },
        s \in AccountIds \cup { "none" }, t \in AccountIds \cup { "u0" } }
    \cup { NewAction(a, s, "none") :
             a \in { "getAllUsers", "getUserStats" }, s \in AccountIds \cup { "none" } }

AdminInit ==
    /\ orders = {}
    /\ request = [shop_id |-> "s1", limit |-> 1, searchTerm |-> Undefined,
                  orderStatus |-> NoStatus, dateRange |-> NoRange]
    /\ cursor = Undefined
    /\ walk = << >>
    /\ probe = NoProbe
    /\ pc = "admin"
    /\ codec = CodecIdle
    /\ StoreIdle
    /\ users \in RoleTables
    /\ calls \in [1..2 -> ActionCalls]
    /\ search = Off
    /\ worker = Off
    /\ boot = Off
    /\ login = Off

\* The call throws error inside its try: the catch block decides what
\* reaches the caller.
Throws(i, error) ==
    calls' = [calls EXCEPT ![i].pc = "thrown",
                           ![i].error = Rethrown(calls[i].action, error)]

\* await verifyAdmin(), and in removeUserAdminAction the comparison of the
\* caller with the target that follows it.
Verify ==
    /\ pc = "admin"
    /\ \E i \in DOMAIN calls :
          /\ calls[i].pc = "start"
          /\ LET v == VerifyAdmin(users, calls[i].session) IN
                IF ~v.ok
                THEN calls' = [calls EXCEPT
                                  ![i].pc = "thrown",
                                  ![i].denied = v.error,
                                  ![i].error = Rethrown(calls[i].action, v.error)]
                ELSE IF calls[i].action = "removeUserAdmin" /\ v.id = calls[i].target
                THEN Throws(i, "ForbiddenError")
                ELSE calls' = [calls EXCEPT ![i].pc = "verified"]
    /\ UNCHANGED << orders, request, cursor, walk, probe, pc, codec, storeVars,
                    users, search, worker, boot, login >>

\* await userRepository.findById(targetUserId) and the checks on what it
\* returned.
FindTarget ==
    /\ pc = "admin"
    /\ \E i \in DOMAIN calls :
          /\ calls[i].pc = "verified"
          /\ calls[i].action \in { "makeUserAdmin", "removeUserAdmin" }
          /\ LET targetUser == UserFindById(users, calls[i].target)
                 check == TargetCheck(calls[i].action, targetUser)
                 role == IF targetUser = Null THEN "unknown" ELSE targetUser.row.role
             IN IF check # "none"
                THEN calls' = [calls EXCEPT ![i].pc = "thrown",
                                            ![i].read = role,
                                            ![i].error = Rethrown(calls[i].action, check),
                                            ![i].repo = Append(@, "findById")]
                ELSE calls' = [calls EXCEPT ![i].pc = "found",
                                            ![i].read = role,
                                            ![i].repo = Append(@, "findById")]
    /\ UNCHANGED << orders, request, cursor, walk, probe, pc, codec, storeVars,
                    users, search, worker, boot, login >>

\* await userRepository.update(targetUserId, { role }) and the return.
UpdateRole ==
    /\ pc = "admin"
    /\ \E i \in DOMAIN calls :
          /\ calls[i].pc = "found"
          /\ users' = UserUpdate(users, calls[i].target,
                                 IF calls[i].action = "makeUserAdmin" THEN "ADMIN" ELSE "USER")
          /\ calls' = [calls EXCEPT ![i].pc = "returned",
                                    ![i].repo = Append(@, "update"),
                                    ![i].wrote = TRUE]
    /\ UNCHANGED << orders, request, cursor, walk, probe, pc, codec, storeVars,
                    search, worker, boot, login >>

\* await userRepository.findMany(...) of getAllUsersAction, await
\* Promise.all([count, count, count]) of getUserStatsAction, and the return.
ReadUsers ==
    /\ pc = "admin"
    /\ \E i \in DOMAIN calls :
          /\ calls[i].pc = "verified"
          /\ calls[i].action \in { "getAllUsers", "getUserStats" }
          /\ calls' = [calls EXCEPT
                          ![i].pc = "returned",
                          ![i].repo = IF calls[i].action = "getAllUsers"
                                      THEN Append(@, "findMany")
                                      ELSE @ \o << "count", "count", "count" >>]
    /\ UNCHANGED << orders, request, cursor, walk, probe, pc, codec, storeVars,
                    users, search, worker, boot, login >>

AdminNext == Verify \/ FindTarget \/ UpdateRole \/ ReadUsers

SpecAdmin == AdminInit /\ [][AdminNext]_vars

----------------------------------------------------------------------------
(* getAllUsersAction, called page after page by one caller.                *)

DefaultLimit == 20

\* The user tables of the listing: any of the accounts, each with any role,
\* created at 09:59 or at 10:00; account k is named "a", "b", "a", ...
UserTables ==
    UNION { { { [id |-> AccountPool[k], role |-> f[k].role, created_at |-> f[k].created_at,
                 name |-> << 97 + ((k - 1) % 2) >>, email |-> << 120, 64, 121 >>] : k \in K } :
              f \in [K -> [role : Roles, created_at : { T0959, T1000 }]] } :
            K \in SUBSET (1..MaxAccounts) }

\* options of getAllUsersAction (without the cursor) and who is signed in.
UserListOptions ==
    [session : { "none" } \cup AccountIds,
     limit   : { Undefined } \cup { [kind |-> "number", value |-> n] : n \in 0..MaxLimit },
     search  : { Undefined, Str(<< 97 >>) },
     role    : { "undefined", "ADMIN" }]

\* Does the user satisfy where?  OR over name and email (contains,
\* insensitive) when options.search is truthy; role when options.role is.
UserMatches(u, options) ==
    /\ Truthy(options.search) =>
          \/ ContainsInsensitive(u.name, options.search.text)
          \/ ContainsInsensitive(u.email, options.search.text)
    /\ options.role # "undefined" => u.role = options.role

\* const limit = options.limit || 20
LimitOf(options) ==
    IF options.limit = Undefined \/ options.limit.value = 0 THEN DefaultLimit
    ELSE options.limit.value

\* From findMany to the response, the rows of the table coming in the
\* order sorted (one of the orders orderBy created_at desc allows).
UserPage(sorted, options, c) ==
    LET limit == LimitOf(options)
        \* options.cursor ? ... : the id of a user is never the empty string
        found == Take(IF c.kind = "string" THEN AfterCursor(sorted, c.text) ELSE sorted,
                      limit + 1)
        hasMore == Len(found) > limit
        data == IF hasMore THEN SubSeq(found, 1, Len(found) - 1) ELSE found
    IN  [data |-> data,
         nextCursor |-> IF hasMore THEN Str(data[Len(data)].id) ELSE Null,
         hasMore |-> hasMore,
         error |-> "none"]

\* Every outcome of getAllUsersAction(options) with cursor c.
getAllUsersAction(table, options, c) ==
    IF ~VerifyAdmin(table, options.session).ok
    THEN { [data |-> << >>, nextCursor |-> Null, hasMore |-> FALSE,
            error |-> Rethrown("getAllUsers", VerifyAdmin(table, options.session).error)] }
    ELSE { UserPage(sorted, options, c) :
             sorted \in Orderings({ u \in table : UserMatches(u, options) }) }

UserListInit ==
    /\ orders = {}
    /\ request \in UserListOptions
    /\ cursor = Undefined
    /\ walk = << >>
    /\ probe = NoProbe
    /\ pc = "ready"
    /\ codec = CodecIdle
    /\ StoreIdle
    /\ users \in UserTables
    /\ calls = NoCalls
    /\ search = Off
    /\ worker = Off
    /\ boot = Off
    /\ login = Off

\* The caller asks for the next page of users, passing the nextCursor of
\* the previous page back.
ListUsersPage ==
    /\ pc = "ready"
    /\ Len(walk) < MaxCalls
    /\ \E r \in getAllUsersAction(users, request, cursor) :
          /\ walk' = Append(walk, [cursor |-> cursor, result |-> r])
          /\ cursor' = IF r.hasMore THEN r.nextCursor ELSE Undefined
          /\ pc' = IF r.error # "none" THEN "failed"
                   ELSE IF r.hasMore THEN "ready" ELSE "done"
    /\ UNCHANGED << orders, request, probe, codec, storeVars, users, calls,
                    search, worker, boot, login >>

UserListNext == ListUsersPage

SpecUserList == UserListInit /\ [][UserListNext]_vars

----------------------------------------------------------------------------
(* PrismaSearchService: page-number pagination, read page after page.      *)

MaxRecords == 2

DefaultPageSize == 10

Num(n) == [kind |-> "number", value |-> n]

Bool(b) == [kind |-> "boolean", value |-> b]

\* The id of record k of a table: "p1", "s1", "c1", ...
RecordId(letter, k) == << letter, 48 + k >>

\* query && query.trim()
HasQuery(query) == Truthy(query) /\ \E i \in 1..Len(query.text) : query.text[i] # 32

\* The tables of n products, with the columns the search reads; the shop and the category
\* of a product are joined in.  Product k costs 5 or 7, is named "a" or "B"
\* and was created at 09:59 or 10:00 accordingly.
ProductTables(n) ==
    { { [id |-> RecordId(112, k),
         name |-> IF f[k].key = 1 THEN << 97 >> ELSE << 66 >>,
         description |-> << >>,
         price |-> 3 + 2 * f[k].key,
         created_at |-> IF f[k].key = 1 THEN T0959 ELSE T1000,
         stock_quantity |-> f[k].stock,
         deleted_at |-> IF f[k].state = "deleted" THEN T1000b ELSE NullTime,
         shop_id |-> RecordId(115, IF f[k].state = "shopInactive" THEN 2
                                   ELSE IF f[k].state = "shopDeleted" THEN 3 ELSE 1),
         shop |-> [is_active |-> f[k].state # "shopInactive",
                   deleted_at |-> IF f[k].state = "shopDeleted" THEN T1000b ELSE NullTime],
         category_id |-> RecordId(99, 1),
         category |-> [name |-> << 99, 97, 116 >>]] : k \in 1..n } :
      f \in [1..n ->
               [key : 1..2, stock : 0..1,
                state : { "live", "deleted", "shopInactive", "shopDeleted" }]] }

ShopTables(n) ==
    { { [id |-> RecordId(115, k),
         name |-> IF f[k].key = 1 THEN << 97 >> ELSE << 66 >>,
         description |-> << >>,
         location |-> << 120 >>,
         created_at |-> IF f[k].key = 1 THEN T0959 ELSE T1000,
         is_active |-> f[k].is_active,
         deleted_at |-> IF f[k].deleted THEN T1000b ELSE NullTime] : k \in 1..n } :
      f \in [1..n -> [key : 1..2, is_active : BOOLEAN, deleted : BOOLEAN]] }

CategoryTables(n) ==
    { { [id |-> RecordId(99, k),
         name |-> IF f[k].key = 1 THEN << 97 >> ELSE << 66 >>,
         shop_id |-> RecordId(115, f[k].shop)] : k \in 1..n } :
      f \in [1..n -> [key : 1..2, shop : 1..2]] }

\* const where of searchProducts
ProductWhere(p, params) ==
    /\ p.deleted_at = NullTime
    /\ p.shop.is_active
    /\ p.shop.deleted_at = NullTime
    /\ Truthy(params.shopId) => p.shop_id = params.shopId.text
    /\ Truthy(params.categoryId) => p.category_id = params.categoryId.text
    /\ params.minPrice # Undefined => p.price >= params.minPrice.value
    /\ params.maxPrice # Undefined => p.price <= params.maxPrice.value
    /\ params.inStock = Bool(TRUE) => p.stock_quantity > 0
    /\ params.inStock = Bool(FALSE) => p.stock_quantity <= 0
    /\ HasQuery(params.query) =>
          \/ ContainsInsensitive(p.name, params.query.text)
          \/ ContainsInsensitive(p.description, params.query.text)
          \/ ContainsInsensitive(p.category.name, params.query.text)

\* const where of searchShops; isActive = true when absent.
ShopWhere(s, params) ==
    /\ s.deleted_at = NullTime
    /\ s.is_active = (IF params.isActive = Undefined THEN TRUE ELSE params.isActive.value)
    /\ HasQuery(params.query) =>
          \/ ContainsInsensitive(s.name, params.query.text)
          \/ ContainsInsensitive(s.description, params.query.text)
          \/ ContainsInsensitive(s.location, params.query.text)

\* const where of searchCategories
CategoryWhere(c, params) ==
    /\ Truthy(params.shopId) => c.shop_id = params.shopId.text
    /\ HasQuery(params.query) => ContainsInsensitive(c.name, params.query.text)

\* const orderBy of searchProducts: the column and the direction.
ProductOrderBy(params) ==
    LET sortOrder == IF params.sortOrder = Undefined THEN "desc" ELSE params.sortOrder.text
        sortBy == IF params.sortBy = Undefined THEN "created_at" ELSE params.sortBy.text
    IN  IF sortBy \in { "price", "name", "created_at" }
        THEN [column |-> sortBy, order |-> sortOrder]
        ELSE [column |-> "created_at", order |-> "desc"]

\* Does a sort strictly before b under orderBy?
SortsBefore(a, b, orderBy) ==
    LET less(x, y) == CASE orderBy.column = "price" -> x.price < y.price
                        [] orderBy.column = "name" -> LexLess(x.name, y.name)
                        [] orderBy.column = "created_at" -> DateLess(x.created_at, y.created_at)
    IN  IF orderBy.order = "asc" THEN less(a, b) ELSE less(b, a)

\* Every order in which a query with this orderBy can return the rows:
\* rows that compare equal come in any order.
RECURSIVE OrderedBy(_, _)
OrderedBy(S, orderBy) ==
    IF S = {} THEN { << >> }
    ELSE UNION { { << x >> \o t : t \in OrderedBy(S \ {x}, orderBy) } :
                 x \in { y \in S : \A z \in S : ~SortsBefore(z, y, orderBy) } }

\* findMany({ skip: offset, take: limit }) on the sorted rows, count, and
\* the response built from them; of a hit, its id.
PageOf(sorted, params) ==
    LET page == IF params.page = Undefined THEN 1 ELSE params.page.value
        limit == IF params.limit = Undefined THEN DefaultPageSize ELSE params.limit.value
        offset == (page - 1) * limit
        found == Take(SubSeq(sorted, offset + 1, Len(sorted)), limit)
        total == Len(sorted)
    IN  [hits |-> [i \in 1..Len(found) |-> found[i].id],
         total |-> total,
         page |-> page,
         totalPages |-> (total + limit - 1) \div limit]

searchProducts(table, params) ==
    { PageOf(sorted, params) :
        sorted \in OrderedBy({ p \in table : ProductWhere(p, params) }, ProductOrderBy(params)) }

searchShops(table, params) ==
    { PageOf(sorted, params) :
        sorted \in OrderedBy({ s \in table : ShopWhere(s, params) },
                             [column |-> "created_at", order |-> "desc"]) }

searchCategories(table, params) ==
    { PageOf(sorted, params) :
        sorted \in OrderedBy({ c \in table : CategoryWhere(c, params) },
                             [column |-> "name", order |-> "asc"]) }

PageSizes == { Undefined } \cup { Num(n) : n \in 1..MaxLimit }

Queries == { Undefined, Str(<< 97 >>), Str(<< 32 >>) }

NoProductFilter ==
    [shopId |-> Undefined, categoryId |-> Undefined, minPrice |-> Undefined,
     maxPrice |-> Undefined, inStock |-> Undefined, query |-> Undefined]

\* The filters of a product search: none, or one of them, or a price range.
ProductFilters ==
    { NoProductFilter,
      [NoProductFilter EXCEPT !.shopId = Str(RecordId(115, 1))],
      [NoProductFilter EXCEPT !.categoryId = Str(RecordId(99, 1))],
      [NoProductFilter EXCEPT !.minPrice = Num(6)],
      [NoProductFilter EXCEPT !.maxPrice = Num(6)],
      [NoProductFilter EXCEPT !.minPrice = Num(5), !.maxPrice = Num(7)],
      [NoProductFilter EXCEPT !.inStock = Bool(TRUE)],
      [NoProductFilter EXCEPT !.inStock = Bool(FALSE)] }
    \cup { [NoProductFilter EXCEPT !.query = q] : q \in Queries }

Sorts ==
    { [sortBy |-> Undefined, sortOrder |-> Undefined],
      [sortBy |-> Str("price"), sortOrder |-> Str("asc")],
      [sortBy |-> Str("name"), sortOrder |-> Str("desc")],
      [sortBy |-> Str("rating"), sortOrder |-> Str("asc")] }

\* A search about to be made: which method, on which table, with which
\* parameters (page apart).
Searches(n) ==
    { [pc |-> "search", kind |-> "products", table |-> t, pages |-> << >>,
       params |-> [shopId |-> f.shopId, categoryId |-> f.categoryId,
                   minPrice |-> f.minPrice, maxPrice |-> f.maxPrice,
                   inStock |-> f.inStock, query |-> f.query,
                   sortBy |-> s.sortBy, sortOrder |-> s.sortOrder, limit |-> l]] :
        t \in ProductTables(n), f \in ProductFilters, s \in Sorts, l \in PageSizes }
    \cup
    { [pc |-> "search", kind |-> "shops", table |-> t, pages |-> << >>,
       params |-> [query |-> q, isActive |-> a, limit |-> l]] :
        t \in ShopTables(n), q \in Queries, l \in PageSizes,
        a \in { Undefined, Bool(TRUE), Bool(FALSE) } }
    \cup
    { [pc |-> "search", kind |-> "categories", table |-> t, pages |-> << >>,
       params |-> [query |-> q, shopId |-> s, limit |-> l]] :
        t \in CategoryTables(n), q \in Queries, l \in PageSizes,
        s \in { Undefined, Str(RecordId(115, 1)) } }

\* Does the record match the filters of the search?
SearchMatches(row, s) ==
    CASE s.kind = "products" -> ProductWhere(row, s.params)
      [] s.kind = "shops" -> ShopWhere(row, s.params)
      [] s.kind = "categories" -> CategoryWhere(row, s.params)

\* The outcomes of the search method asked for page n; page 1 is asked
\* for without a page number.
SearchPage(s, n) ==
    LET params == [x \in DOMAIN s.params \cup { "page" } |->
                     IF x = "page" THEN (IF n = 1 THEN Undefined ELSE Num(n))
                     ELSE s.params[x]]
    IN  CASE s.kind = "products" -> searchProducts(s.table, params)
          [] s.kind = "shops" -> searchShops(s.table, params)
          [] s.kind = "categories" -> searchCategories(s.table, params)

PagesInit ==
    /\ orders = {}
    /\ request = [shop_id |-> "s1", limit |-> 1, searchTerm |-> Undefined,
                  orderStatus |-> NoStatus, dateRange |-> NoRange]
    /\ cursor = Undefined
    /\ walk = << >>
    /\ probe = NoProbe
    /\ pc = "search"
    /\ codec = CodecIdle
    /\ StoreIdle
    /\ users = {}
    /\ calls = NoCalls
    /\ search \in Searches(MaxRecords)
    /\ worker = Off
    /\ boot = Off
    /\ login = Off

\* The caller reads the next page: 1, 2, ... up to the first page beyond
\* totalPages.
FetchPage ==
    /\ search.pc = "search"
    /\ \E r \in SearchPage(search, Len(search.pages) + 1) :
          search' = [search EXCEPT !.pages = Append(@, r),
                                   !.pc = IF r.page > r.totalPages THEN "done" ELSE "search"]
    /\ UNCHANGED << orders, request, cursor, walk, probe, pc, codec, storeVars,
                    users, calls, worker, boot, login >>

PagesNext == FetchPage

SpecPages == PagesInit /\ [][PagesNext]_vars

----------------------------------------------------------------------------
(* The worker process: workers/index.ts.                                   *)

MaxSignals == 3

Consumers == { "notificationWorker", "auditWorker" }

\* Has the promise returned by call number n of close() on consumer w
\* resolved, if every call returned a promise of its own that only the
\* first call had to work for?
CloseResolvedOnRepeat(w, n) == n > 1 \/ w.state = "closed"

\* Has the promise returned by call number n of close() on consumer w
\* resolved?  A call made while the consumer is closing returns the
\* promise of the close in progress.
CloseResolved(w, n) == w.state = "closed"

\* consumer.close(): starts closing an open consumer.
Close(w) == IF w.state = "open" THEN [w EXCEPT !.state = "closing"] ELSE w

WorkerInit ==
    /\ orders = {}
    /\ request = [shop_id |-> "s1", limit |-> 1, searchTerm |-> Undefined,
                  orderStatus |-> NoStatus, dateRange |-> NoRange]
    /\ cursor = Undefined
    /\ walk = << >>
    /\ probe = NoProbe
    /\ pc = "worker"
    /\ codec = CodecIdle
    /\ StoreIdle
    /\ users = {}
    /\ calls = NoCalls
    /\ search = Off
    /\ worker \in [pc : { "running" }, code : { -1 }, shutdowns : { << >> },
                   consumers : [Consumers -> [state : { "open" }, active : 0..1]]]
    /\ boot = Off
    /\ login = Off

workerFrame ==
    << orders, request, cursor, walk, probe, pc, codec, storeVars, users, calls,
       search, boot, login >>

\* An open consumer takes a job, or a job in progress ends.
JobStep ==
    /\ worker.pc = "running"
    /\ \E c \in Consumers :
          \/ /\ worker.consumers[c].state = "open"
             /\ worker.consumers[c].active = 0
             /\ worker' = [worker EXCEPT !.consumers[c].active = 1]
          \/ /\ worker.consumers[c].active = 1
             /\ worker' = [worker EXCEPT !.consumers[c].active = 0]
    /\ UNCHANGED workerFrame

\* A closing consumer with no job in progress is closed.
CloseDone ==
    /\ worker.pc = "running"
    /\ \E c \in Consumers :
          /\ worker.consumers[c].state = "closing"
          /\ worker.consumers[c].active = 0
          /\ worker' = [worker EXCEPT !.consumers[c].state = "closed"]
    /\ UNCHANGED workerFrame

\* SIGINT or SIGTERM arrives: gracefulShutdown runs up to its await, having
\* called close() on both consumers.
Signal ==
    /\ worker.pc = "running"
    /\ Len(worker.shutdowns) < MaxSignals
    /\ \E signal \in { "SIGINT", "SIGTERM" } :
          worker' = [worker EXCEPT
                       !.shutdowns = Append(@, [signal |-> signal, call |-> Len(@) + 1]),
                       !.consumers = [c \in Consumers |-> Close(@[c])]]
    /\ UNCHANGED workerFrame

\* The Promise.all of a gracefulShutdown has resolved: it logs and calls
\* process.exit(0).
Exit ==
    /\ worker.pc = "running"
    /\ \E i \in 1..Len(worker.shutdowns) :
          /\ \A c \in Consumers : CloseResolved(worker.consumers[c], worker.shutdowns[i].call)
          /\ worker' = [worker EXCEPT !.pc = "exited", !.code = 0]
    /\ UNCHANGED workerFrame

WorkerNext == JobStep \/ CloseDone \/ Signal \/ Exit

SpecWorker == WorkerInit /\ [][WorkerNext]_vars

\* Node runs the continuation of an await whose promise has resolved.
SpecWorkerLive == SpecWorker /\ WF_vars(Exit)

----------------------------------------------------------------------------
(* The container entrypoint: entrypoint.sh.                                *)

\* The value of an environment variable that is not set.
Unset == "<unset>"

DefaultAuthSecret == "your-super-secret-for-auth"

\* "$(eval echo \$$var)": the value of the variable as echo prints it
\* unquoted; nothing for an unset, an empty or a blank variable.
EvalEcho(value) == IF value \in { Unset, "", " " } THEN "" ELSE value

\* "$VAR": the value, empty when unset.
Expand(value) == IF value = Unset THEN "" ELSE value

Environments ==
    [AUTH_SECRET : { Unset, "", " ", DefaultAuthSecret, "s3cret" },
     DATABASE_URL : { Unset, "", "postgres://db" },
     NODE_ENV : { Unset, "development", "production" },
     MINIO_ROOT_PASSWORD : { Unset, "minioadmin" }]

\* validate_environment without its production checks.
validate_environmentRequiredOnly(env) ==
    IF EvalEcho(env.AUTH_SECRET) = "" \/ EvalEcho(env.DATABASE_URL) = "" THEN 1 ELSE 0

\* validate_environment: the status it exits the script with, 0 when it
\* returns.
validate_environment(env) ==
    IF EvalEcho(env.AUTH_SECRET) = "" THEN 1
    ELSE IF EvalEcho(env.DATABASE_URL) = "" THEN 1
    ELSE IF Expand(env.NODE_ENV) = "production" /\ Expand(env.AUTH_SECRET) = DefaultAuthSecret
         THEN 1
    ELSE 0

BootInit ==
    /\ orders = {}
    /\ request = [shop_id |-> "s1", limit |-> 1, searchTerm |-> Undefined,
                  orderStatus |-> NoStatus, dateRange |-> NoRange]
    /\ cursor = Undefined
    /\ walk = << >>
    /\ probe = NoProbe
    /\ pc = "boot"
    /\ codec = CodecIdle
    /\ StoreIdle
    /\ users = {}
    /\ calls = NoCalls
    /\ search = Off
    /\ worker = Off
    /\ boot \in [pc : { "start" }, status : { -1 }, trace : { << >> },
                 env : Environments, args : { << >>, << "node", "server.js" >> }]
    /\ login = Off

bootFrame ==
    << orders, request, cursor, walk, probe, pc, codec, storeVars, users, calls,
       search, worker, login >>

\* The script runs from its first line to the start of the migrations:
\* validate_environment, health_check, print_environment.
Validate ==
    /\ boot.pc = "start"
    /\ boot' = IF validate_environment(boot.env) # 0
               THEN [boot EXCEPT !.pc = "exited", !.status = validate_environment(boot.env),
                                 !.trace = Append(@, "validation failed")]
               ELSE [boot EXCEPT !.pc = "migrating",
                                 !.trace = @ \o << "validated", "health", "printed", "migrate" >>]
    /\ UNCHANGED bootFrame

\* npx prisma migrate deploy ends; under set -e a non-zero status ends the
\* script with it, otherwise the script execs the command (npm start
\* without arguments).
Migrate ==
    /\ boot.pc = "migrating"
    /\ \E status \in 0..1 :
          boot' = IF status # 0
                  THEN [boot EXCEPT !.pc = "exited", !.status = status,
                                    !.trace = Append(@, "migration failed")]
                  ELSE [boot EXCEPT !.pc = "app",
                                    !.trace = @ \o << "migrated",
                                        IF boot.args = << >> THEN "exec npm start"
                                        ELSE "exec args" >>]
    /\ UNCHANGED bootFrame

BootNext == Validate \/ Migrate

SpecBoot == BootInit /\ [][BootNext]_vars

----------------------------------------------------------------------------
(* loginAction.                                                            *)

Credentials ==
    [email : { "", "nope", "a@b.c", "A@B.C" }, password : { "", "pw", "wrong" }]

\* What signIn("credentials", ...) does with valid input: it completes, or
\* throws an AuthError of some type, or throws another error.
SignInOutcomes ==
    { [thrown |-> FALSE, authError |-> FALSE, type |-> "none"],
      [thrown |-> TRUE, authError |-> FALSE, type |-> "none"] }
    \cup { [thrown |-> TRUE, authError |-> TRUE, type |-> t] :
             t \in { "CredentialsSignin", "AccessDenied", "CallbackRouteError" } }

\* A parse that accepts every input.
safeParseAny(credentials) == TRUE

\* loginSchema.safeParse(credentials).success: an email address and a
\* password that is not empty.
safeParse(credentials) ==
    credentials.email \in { "a@b.c", "A@B.C" } /\ credentials.password # ""

createAuthResponse(success, details) == [success |-> success, details |-> details]

\* catch (error) of loginAction
Caught(error) ==
    IF error.authError
    THEN CASE error.type = "CredentialsSignin" -> createAuthResponse(FALSE, "Invalid credentials")
           [] error.type = "AccessDenied" ->
                createAuthResponse(FALSE, "Access denied. Please verify your email first.")
           [] OTHER -> createAuthResponse(FALSE, "An authentication error occurred")
    ELSE createAuthResponse(FALSE, "Sign in failed")

LoginInit ==
    /\ orders = {}
    /\ request = [shop_id |-> "s1", limit |-> 1, searchTerm |-> Undefined,
                  orderStatus |-> NoStatus, dateRange |-> NoRange]
    /\ cursor = Undefined
    /\ walk = << >>
    /\ probe = NoProbe
    /\ pc = "login"
    /\ codec = CodecIdle
    /\ StoreIdle
    /\ users = {}
    /\ calls = NoCalls
    /\ search = Off
    /\ worker = Off
    /\ boot = Off
    /\ login \in [pc : { "called" }, credentials : Credentials, signIn : SignInOutcomes,
                  signInCalls : { 0 }, response : { createAuthResponse(FALSE, "") }]

loginFrame ==
    << orders, request, cursor, walk, probe, pc, codec, storeVars, users, calls,
       search, worker, boot >>

\* loginAction up to its await: the parse, and either the return of the
\* parse error or the call of signIn.
LoginParse ==
    /\ login.pc = "called"
    /\ login' = IF ~safeParse(login.credentials)
                THEN [login EXCEPT !.pc = "returned",
                                   !.response = createAuthResponse(FALSE, "parse error")]
                ELSE [login EXCEPT !.pc = "signIn", !.signInCalls = @ + 1]
    /\ UNCHANGED loginFrame

\* signIn settles and loginAction returns.
LoginSettle ==
    /\ login.pc = "signIn"
    /\ login' = [login EXCEPT
                    !.pc = "returned",
                    !.response = IF login.signIn.thrown THEN Caught(login.signIn)
                                 ELSE createAuthResponse(TRUE, "Login successful")]
    /\ UNCHANGED loginFrame

LoginNext == LoginParse \/ LoginSettle

SpecLogin == LoginInit /\ [][LoginNext]_vars

----------------------------------------------------------------------------
(* What the claims speak of.                                               *)

\* The orders a request is about: of its shop, of its status when it names
\* one, created within its date range when it names one, and holding its
\* search term when it has one.
SatisfiesFilters(o, req) ==
    /\ o.shop_id = req.shop_id
    /\ (req.orderStatus # NoStatus => o.order_status = req.orderStatus)
    /\ (req.dateRange.present =>
            DateLeq(req.dateRange.from, o.created_at) /\ DateLeq(o.created_at, req.dateRange.to))

SatisfiesRequest(o, req) ==
    /\ SatisfiesFilters(o, req)
    /\ (Truthy(req.searchTerm) => TextMatch(o, req.searchTerm.text))

MatchingOrders == { o \in orders : SatisfiesRequest(o, request) }

StrategyA == ~Truthy(request.searchTerm)

StrategyB == Truthy(request.searchTerm)

\* The orders of the pages of the walk, in the order returned.
Returned == Concat([i \in 1..Len(walk) |-> walk[i].result.orders])

NoDuplicates(seq) == \A i, j \in 1..Len(seq) : i # j => seq[i] # seq[j]

ExactlyOnce == NoDuplicates(Returned) /\ { Returned[i] : i \in 1..Len(Returned) } = MatchingOrders

LastOf(seq) == seq[Len(seq)]

\* C1: a finished walk of Strategy A (no search term) has returned every
\* order of the shop that satisfies the status/date filters exactly once.
C1_ExhaustiveWalkA == (pc = "done" /\ StrategyA) => ExactlyOnce

\* C2: a finished walk of Strategy B (search term) has returned every order
\* that matches shop, filters and text predicate exactly once; no order is
\* returned twice and no matching order is skipped at a page boundary.
C2_ExhaustiveWalkB ==
    (pc = "done" /\ StrategyB) =>
        /\ NoDuplicates(Returned)
        /\ \A o \in MatchingOrders : \E k \in 1..Len(Returned) : Returned[k] = o

\* A finished search walk of three pages of one order each, two of the
\* matching orders sharing created_at.
C2_Witness ==
    /\ pc = "done"
    /\ request.searchTerm = Str(TermNit)
    /\ request.limit = 1
    /\ Len(walk) = 3
    /\ Cardinality(MatchingOrders) >= 2
    /\ \E x, y \in MatchingOrders : x # y /\ x.created_at = y.created_at

\* C3: in Strategy B every order of every page, also of a page asked for
\* with a cursor, holds the search term and satisfies the status and date
\* filters.
C3_SearchPagesMatch ==
    StrategyB =>
        \A i \in 1..Len(walk) : \A k \in 1..Len(walk[i].result.orders) :
            SatisfiesRequest(walk[i].result.orders[k], request)

\* C4: any two orders returned one after the other, within a page or across
\* a page boundary, are in strictly descending (created_at, id) order.
C4_OrderingInvariant ==
    \A k \in 1..(Len(Returned) - 1) : Before(Returned[k], Returned[k + 1])

\* The matching order that comes right after o in (created_at, id)
\* descending order.
IsSuccessor(o, n) ==
    /\ n \in MatchingOrders
    /\ Before(o, n)
    /\ \A m \in MatchingOrders : ~(Before(o, m) /\ Before(m, n))

\* The orders of the example: A(10:00, id 3), B(10:00, id 2), C(09:59, id 9).
IsExample ==
    /\ request.limit = 2
    /\ request.orderStatus = NoStatus
    /\ ~request.dateRange.present
    /\ MatchingOrders = orders
    /\ { << o.id, o.created_at >> : o \in orders }
          = { << <<51>>, T1000 >>, << <<50>>, T1000 >>, << <<57>>, T0959 >> }

\* C5: the page asked for with a returned nextCursor starts with the
\* immediate successor of the last order of the page before; the example
\* walk is [A, B] then [C] with no further cursor.
C5_CursorResumes ==
    /\ \A i \in 1..(Len(walk) - 1) :
          ~walk[i + 1].result.failed =>
            /\ walk[i + 1].result.orders # << >>
            /\ IsSuccessor(LastOf(walk[i].result.orders), walk[i + 1].result.orders[1])
    /\ (IsExample /\ pc = "done") =>
          /\ Len(walk) = 2
          /\ [k \in 1..2 |-> walk[1].result.orders[k].id] = << <<51>>, <<50>> >>
          /\ [k \in 1..1 |-> walk[2].result.orders[k].id] = << <<57>> >>

\* C6: whichever strategy ran, an issued nextCursor is the encoding of
\* (created_at, id) of the last order of the returned page.
C6_SameTokenFromLastRow ==
    \A i \in 1..Len(walk) :
        walk[i].result.nextCursor # Undefined =>
            /\ walk[i].result.orders # << >>
            /\ walk[i].result.nextCursor
                 = Str(EncodeCursor(LastOf(walk[i].result.orders).created_at,
                                    LastOf(walk[i].result.orders).id))

\* C7: a page holds at most limit orders; nextCursor is present exactly when
\* a matching order comes after the last returned one; without nextCursor
\* the page ends with the last matching order.
C7_EndOfSequence ==
    \A i \in 1..Len(walk) :
        LET r == walk[i].result IN
        ~r.failed =>
            /\ Len(r.orders) <= request.limit
            /\ (r.nextCursor # Undefined) <=>
                  (r.orders # << >> /\ \E m \in MatchingOrders : Before(LastOf(r.orders), m))
            /\ (r.nextCursor = Undefined /\ MatchingOrders # {}) =>
                  /\ r.orders # << >>
                  /\ LastOf(r.orders) \in MatchingOrders
                  /\ \A m \in MatchingOrders : ~Before(LastOf(r.orders), m)

\* C8: a call with a cursor that decodes to no (timestamp, id) pair does not
\* fail and returns what the same call without a cursor returns.
C8_MalformedCursorIsFirstPage ==
    probe.made =>
        /\ ~probe.result.failed
        /\ probe.result \in getPaginatedShopOrders(orders, Opts(request, Undefined))

\* C9: decoding the token encoded from (created_at, id) gives the range
\* condition on exactly that pair.
C9_CursorRoundTrip ==
    codec.pc = "decoded" =>
        codec.decoded = [OR |-> [kind |-> "cursor", date |-> codec.created_at,
                                 id |-> Str(codec.id)]]

C9_Witness ==
    /\ codec.pc = "decoded"
    /\ codec.created_at = [day |-> 19782, ms |-> 86399999]
    /\ codec.id = <<34, 92>>
    /\ Len(codec.token) = 48

\* The pages of the walk of the search listing, from the given cursor.
RECURSIVE SearchWalk(_, _, _, _)
SearchWalk(store, req, c, n) ==
    LET r == SearchListing(store, Opts(req, c))
    IN  IF r.failed \/ n = 0 THEN << >>
        ELSE IF r.nextCursor = Undefined THEN << r.orders >>
        ELSE << r.orders >> \o SearchWalk(store, req, r.nextCursor, n - 1)

\* C10: the pages of a finished walk of Strategy A are the pages of the walk
\* of Strategy B with a term every order holds ("ord").
C10_StrategyEquivalence ==
    (pc = "done" /\ StrategyA /\ \A o \in orders : TextMatch(o, TermOrd)) =>
        [i \in 1..Len(walk) |-> walk[i].result.orders]
            = SearchWalk(orders, [request EXCEPT !.searchTerm = Str(TermOrd)],
                         Undefined, MaxCalls)

\* The orders that existed when the walk started and that the request is
\* about.
StartedMatching == { o \in started : SatisfiesRequest(o, request) }

\* C11: in a walk during which orders are created between page requests, no
\* order appears on two pages, and a finished walk has returned every order
\* that existed when it started and matches the request exactly once.
C11_StableUnderInserts ==
    /\ NoDuplicates(Returned)
    /\ pc = "done" =>
          \A o \in StartedMatching : \E k \in 1..Len(Returned) : Returned[k] = o

\* C12: every order a listing call returns, whichever the strategy and
\* whatever the cursor (none, one issued for a listing of another shop, one
\* never issued), has the shop_id of the request.
C12_ShopIsolation ==
    probe.made =>
        \A k \in 1..Len(probe.result.orders) :
            probe.result.orders[k].shop_id = request.shop_id

\* A search call whose cursor is the token of an order of another shop
\* returns an order.
C12_Witness ==
    /\ probe.made
    /\ StrategyB
    /\ ~probe.result.failed
    /\ Len(probe.result.orders) >= 1
    /\ \E o \in orders :
          /\ o.shop_id # request.shop_id
          /\ probe.cursor = Str(EncodeCursor(o.created_at, o.id))

\* The rows the last call returned.
ReturnedRows ==
    IF lastOp.name = "none" \/ lastOp.failed THEN {}
    ELSE IF lastOp.result.kind = "order" THEN { lastOp.result.row }
    ELSE IF lastOp.result.kind = "orders" THEN lastOp.result.rows
    ELSE IF lastOp.result.kind = "page"
         THEN { lastOp.result.page.orders[k] : k \in 1..Len(lastOp.result.page.orders) }
    ELSE {}

\* The rows the last call wrote, as they were before it.
ModifiedRows ==
    IF lastOp.name = "none" THEN {} ELSE { o \in lastOp.pre : o \notin orders }

TouchedRows == ReturnedRows \cup ModifiedRows

IdKeyed == { "getOrderById", "findById", "getOrdersByIds", "updateStatus", "batchUpdateStatus" }

NamedIds ==
    IF lastOp.name \in { "getOrdersByIds", "batchUpdateStatus" } THEN lastOp.args.ids
    ELSE IF lastOp.name \in IdKeyed THEN { lastOp.args.id }
    ELSE {}

BatchDone == lastOp.name = "batchUpdateStatus" /\ ~lastOp.failed

\* C14: after a batchUpdateStatus(ids, S), the first as well as its
\* repetition right after, every existing order whose id is in ids has
\* status S and the count returned is not negative; the repetition leaves
\* the table as the first call left it.
C14_BatchIdempotence ==
    BatchDone =>
        /\ \A o \in orders : o.id \in lastOp.args.ids => o.order_status = lastOp.args.order_status
        /\ lastOp.result.count >= 0
        /\ lastOp.again => orders = lastOp.pre

\* batchUpdateStatus(ids, CANCELLED) has been called twice in a row on two
\* existing orders, none of which was CANCELLED before the first call.
C14_Witness ==
    /\ BatchDone
    /\ lastOp.again
    /\ lastOp.args.order_status = "CANCELLED"
    /\ lastOp.result.count >= 2
    /\ Cardinality({ o \in orders : o.id \in lastOp.args.ids }) >= 2

\* The table pre after every row whose id is in ids was given status S.
AllSet(pre, ids, S) ==
    { IF o.id \in ids THEN [o EXCEPT !.order_status = S] ELSE o : o \in pre }

Reads == { "getOrderById", "findById", "getOrdersByUserId", "getOrdersByShopId",
           "getOrdersByIds", "getPaginatedShopOrders" }

UpdateOfExisting ==
    /\ lastOp.name = "updateStatus"
    /\ ~lastOp.args.fails
    /\ \E o \in lastOp.pre : o.id = lastOp.args.id

\* C16: updateStatus of an existing order succeeds for every current and
\* every new status, the same status and a change out of COMPLETED or
\* CANCELLED included; the order returned and the order stored have the new
\* status.
C16_UnconditionalOverwrite ==
    UpdateOfExisting =>
        /\ ~lastOp.failed
        /\ lastOp.result.kind = "order"
        /\ lastOp.result.row.id = lastOp.args.id
        /\ lastOp.result.row.order_status = lastOp.args.order_status
        /\ \A o \in orders : o.id = lastOp.args.id => o.order_status = lastOp.args.order_status
        /\ \E o \in orders : o.id = lastOp.args.id

\* An order that was CANCELLED has been set to PENDING.
C16_Witness ==
    /\ UpdateOfExisting
    /\ lastOp.args.order_status = "PENDING"
    /\ \E o \in lastOp.pre : o.id = lastOp.args.id /\ o.order_status = "CANCELLED"
    /\ \E o \in orders : o.id = lastOp.args.id /\ o.order_status = "PENDING"

BothReturned ==
    /\ Len(race.calls) = 2
    /\ \A p \in 1..2 : race.calls[p].pc = "returned"

\* The row of the raced order now, and when the calls were made.
RacedNow == CHOOSE o \in orders : o.id = race.calls[1].id

RacedBefore == CHOOSE o \in started : o.id = race.calls[1].id

\* C17: when two updateStatus calls on one order were in flight together
\* and both have returned, neither failed, and the order is as the two
\* writes leave it applied one after the other in the order the database
\* applied them: its status is that of the write applied last.
C17_LastWriteWins ==
    BothReturned =>
        /\ \A p \in 1..2 : ~race.calls[p].failed /\ race.calls[p].result.kind = "order"
        /\ RacedNow.order_status = race.calls[race.applied[2]].order_status
        /\ RacedNow = SetFields(SetFields(RacedBefore, race.calls[race.applied[1]]),
                                race.calls[race.applied[2]])
        /\ orders \ { RacedNow } = started \ { RacedBefore }

\* Both calls were in flight before either was applied, they carry
\* different statuses, and the call sent as the second was applied first.
C17_Witness ==
    /\ BothReturned
    /\ race.calls[1].order_status # race.calls[2].order_status
    /\ race.applied = << 2, 1 >>
    /\ race.calls[1].seen = race.calls[2].seen
    /\ RacedNow.order_status = race.calls[1].order_status
    /\ RacedBefore.order_status # race.calls[1].order_status

\* C18: two listing calls with the same shop_id, filters, search term,
\* cursor and limit on the same table return the same orders in the same
\* order and the same nextCursor, whatever listing calls were made before
\* or between them.
C18_SameCallSameResult ==
    \A i, j \in 1..Len(walk) :
        walk[i].cursor = walk[j].cursor => walk[i].result = walk[j].result

\* The last call was a point lookup by an id no order of the table has.
LookupOfUnknown ==
    /\ lastOp.name \in { "findById", "getOrderById" }
    /\ \A o \in lastOp.pre : o.id # lastOp.args.id

\* C19: findById and getOrderById with an id no order has return null; the
\* call does not throw and the table is unchanged.
C19_NotFoundIsNull ==
    LookupOfUnknown =>
        /\ lastOp.result = Null
        /\ ~lastOp.failed
        /\ orders = lastOp.pre

\* getOrderById, as the second call of a caller, was given an id that no
\* order of a table that has orders has.
C19_Witness ==
    /\ LookupOfUnknown
    /\ lastOp.name = "getOrderById"
    /\ pc = "done"
    /\ orders # {}

FailingStoreCalls == { "getPaginatedShopOrders", "updateStatus", "batchUpdateStatus" }

\* C20: when the store call of a listing, of updateStatus or of
\* batchUpdateStatus fails, the operation fails to its caller with that
\* failure, the store was called once and not again, and no order was
\* changed.
C20_FailurePropagates ==
    lastOp.name \in FailingStoreCalls =>
        /\ lastOp.calls <= 1
        /\ lastOp.args.fails =>
              /\ lastOp.failed
              /\ lastOp.result = Error
        /\ lastOp.failed => orders = lastOp.pre

\* The store call of an updateStatus that would have changed the status of
\* an existing order has failed.
C20_Witness ==
    /\ lastOp.name = "updateStatus"
    /\ lastOp.args.fails
    /\ lastOp.failed
    /\ \E o \in lastOp.pre : /\ o.id = lastOp.args.id
                             /\ o.order_status # lastOp.args.order_status

\* The options of the single call made.
ProbeOpts == Opts(request, probe.cursor)

\* C21: a listing call is served by the plain listing exactly when its
\* search term is absent or the empty string and by the search listing
\* otherwise, whatever its cursor, limit, status and date filters; and every
\* order either returns is of the shop, has the status asked for and was
\* created within the date range asked for, bounds included.
C21_StrategySelection ==
    probe.made =>
        /\ (request.searchTerm = Undefined \/ request.searchTerm = Str(<< >>)) =>
              probe.result \in getPaginatedShopOrdersFromDB(
                                  orders, [ProbeOpts EXCEPT !.searchTerm = Undefined])
        /\ ~(request.searchTerm = Undefined \/ request.searchTerm = Str(<< >>)) =>
              probe.result = SearchListing(orders, ProbeOpts)
        /\ \A k \in 1..Len(probe.result.orders) :
              SatisfiesFilters(probe.result.orders[k], request)

\* A call with the empty string as search term, a cursor, a status filter
\* and a date range has returned an order and a further cursor.
C21_Witness ==
    /\ probe.made
    /\ request.searchTerm = Str(<< >>)
    /\ Truthy(probe.cursor)
    /\ request.orderStatus # NoStatus
    /\ request.dateRange.present
    /\ Len(probe.result.orders) >= 1

\* The row of the table before the last call that has the id of o.
RowBefore(o) == CHOOSE p \in lastOp.pre : p.id = o.id

\* o is p but for its order_status.
SameButStatus(o, p) == [o EXCEPT !.order_status = p.order_status] = p

\* C22: a batchUpdateStatus(ids, S) that did not fail leaves the orders
\* whose id is not in ids as they were, changes of the others nothing but
\* the order_status, adds and removes no order, and returns the number of
\* orders whose id is in ids, ids that no order has counting for nothing;
\* an updateStatus without assigned_to and actual_delivery_time leaves both
\* fields of the order and every other order as they were.
C22_FrameOfStatusMutations ==
    /\ BatchDone =>
          /\ { o.id : o \in orders } = { o.id : o \in lastOp.pre }
          /\ \A o \in orders :
                IF o.id \in lastOp.args.ids
                THEN /\ SameButStatus(RowBefore(o), o)
                     /\ o.order_status = lastOp.args.order_status
                ELSE o \in lastOp.pre
          /\ lastOp.result.count
                = Cardinality({ o \in lastOp.pre : o.id \in lastOp.args.ids })
    /\ (/\ lastOp.name = "updateStatus"
        /\ ~lastOp.failed
        /\ lastOp.args.assigned_to = Undefined
        /\ lastOp.args.actual_delivery_time = Undefined) =>
          /\ { o.id : o \in orders } = { o.id : o \in lastOp.pre }
          /\ \A o \in orders :
                IF o.id = lastOp.args.id
                THEN SameButStatus(RowBefore(o), o)
                ELSE o \in lastOp.pre

\* A batchUpdateStatus was given the id of an order that has an assigned_to
\* and an actual_delivery_time, the id of no order, and a status the order
\* did not have.
C22_Witness ==
    /\ BatchDone
    /\ lastOp.result.count = 1
    /\ Cardinality(lastOp.args.ids) = 2
    /\ Cardinality(orders) = 2
    /\ \E o \in lastOp.pre :
          /\ o.id \in lastOp.args.ids
          /\ o.assigned_to = Agent
          /\ o.actual_delivery_time = T1000b
          /\ o.order_status # lastOp.args.order_status

SomeAdmin(table) == \E u \in table : u.role = "ADMIN"

\* C23: whatever the interleaving of the steps of makeUserAdminAction and
\* removeUserAdminAction calls, no step takes the role ADMIN from the last
\* user who has it, and the write of a removeUserAdminAction call leaves
\* the role of its own caller as it was.
C23_AdminSurvival ==
    [][ /\ SomeAdmin(users) => SomeAdmin(users')
        /\ \A i \in DOMAIN calls :
              (calls[i].action = "removeUserAdmin" /\ ~calls[i].wrote /\ calls'[i].wrote) =>
                  \A u \in users : u.id = calls[i].session => u \in users' ]_vars

\* C24: in each of the four admin actions no user-repository call is made
\* before verifyAdmin has completed; a call whose verifyAdmin threw
\* UnauthorizedError or ForbiddenError throws that same error, has made no
\* repository call and has written no role.
C24_AdminCheckFirst ==
    \A i \in DOMAIN calls :
        /\ calls[i].repo # << >> => calls[i].pc # "start" /\ calls[i].denied = "none"
        /\ calls[i].denied # "none" =>
              /\ calls[i].pc = "thrown"
              /\ calls[i].error = calls[i].denied
              /\ calls[i].error \in { "UnauthorizedError", "ForbiddenError" }
              /\ calls[i].repo = << >>
              /\ ~calls[i].wrote

\* A makeUserAdminAction call made with nobody signed in and a
\* getUserStatsAction call made by a user who is no ADMIN have both thrown.
C24_Witness ==
    /\ calls # NoCalls
    /\ calls[1].action = "makeUserAdmin"
    /\ calls[1].denied = "UnauthorizedError"
    /\ calls[2].action = "getUserStats"
    /\ calls[2].denied = "ForbiddenError"

\* The call has thrown error without issuing an update.
Refused(c, error) ==
    /\ c.pc = "thrown"
    /\ c.error = error
    /\ ~c.wrote
    /\ \A k \in 1..Len(c.repo) : c.repo[k] # "update"

Finished(c) == c.pc \in { "thrown", "returned" }

\* What a role action that passed verifyAdmin and has finished did.
RoleChangeOutcome(c) ==
    /\ (c.action = "makeUserAdmin" /\ c.read = "unknown") => Refused(c, "NotFoundError")
    /\ (c.action = "makeUserAdmin" /\ c.read = "ADMIN") => Refused(c, "ForbiddenError")
    /\ (c.action = "makeUserAdmin" /\ c.read = "USER") => c.pc = "returned" /\ c.wrote
    /\ (c.action = "removeUserAdmin" /\ c.target = c.session) =>
          Refused(c, "ForbiddenError") /\ c.repo = << >>
    /\ (c.action = "removeUserAdmin" /\ c.read = "unknown") => Refused(c, "NotFoundError")
    /\ (c.action = "removeUserAdmin" /\ c.read = "USER") => Refused(c, "ForbiddenError")
    /\ (c.action = "removeUserAdmin" /\ c.read = "ADMIN") => c.pc = "returned" /\ c.wrote

\* The step in which call i writes: the target's role becomes role and no
\* other user changes.
WritesOnlyTarget(i) ==
    LET role == IF calls[i].action = "makeUserAdmin" THEN "ADMIN" ELSE "USER" IN
    /\ calls[i].action \in { "makeUserAdmin", "removeUserAdmin" }
    /\ \A u \in users : u.id # calls[i].target => u \in users'
    /\ \E u \in users' : u.id = calls[i].target /\ u.role = role
    /\ { u.id : u \in users' } = { u.id : u \in users }

\* C25: a role action that passed verifyAdmin throws NotFoundError for an
\* unknown target and ForbiddenError for a target that is already ADMIN
\* (make), that is the caller or that is no ADMIN (remove), without issuing
\* an update; every step that changes a role is the write of a call that was
\* not refused and changes the role of that call's target alone, to ADMIN
\* (make) or USER (remove).
C25_RejectedRoleChanges ==
    /\ [](\A i \in DOMAIN calls :
            (Finished(calls[i]) /\ calls[i].denied = "none") => RoleChangeOutcome(calls[i]))
    /\ [][ users' # users =>
              \E i \in DOMAIN calls :
                  /\ ~calls[i].wrote /\ calls'[i].wrote
                  /\ calls'[i].pc = "returned"
                  /\ WritesOnlyTarget(i) ]_vars

\* A makeUserAdminAction call has made a USER an ADMIN and a
\* removeUserAdminAction call of an ADMIN on themselves was refused.
C25_Witness ==
    /\ calls # NoCalls
    /\ calls[1].action = "makeUserAdmin"
    /\ calls[1].read = "USER"
    /\ calls[1].wrote
    /\ \E u \in users : u.id = calls[1].target /\ u.role = "ADMIN"
    /\ calls[2].action = "removeUserAdmin"
    /\ calls[2].target = calls[2].session
    /\ Refused(calls[2], "ForbiddenError")

\* The users of the pages of the walk, in the order returned.
ReturnedUsers == Concat([i \in 1..Len(walk) |-> walk[i].result.data])

\* C26: on every page of a user listing walk hasMore holds exactly when
\* nextCursor is not null, nextCursor is the id of the last user of the
\* page and the page has at most limit users (20 without a limit or with
\* limit 0); a finished walk has returned every user that matches the
\* search and role filters exactly once, created_at descending.
C26_UserListingWalk ==
    /\ \A i \in 1..Len(walk) :
          LET r == walk[i].result IN
          /\ r.hasMore <=> r.nextCursor # Null
          /\ r.hasMore => r.nextCursor = Str(r.data[Len(r.data)].id)
          /\ Len(r.data) <= LimitOf(request)
    /\ pc = "done" =>
          /\ NoDuplicates(ReturnedUsers)
          /\ { ReturnedUsers[k] : k \in 1..Len(ReturnedUsers) }
                = { u \in users : UserMatches(u, request) }
          /\ \A k \in 1..(Len(ReturnedUsers) - 1) :
                ~DateLess(ReturnedUsers[k].created_at, ReturnedUsers[k + 1].created_at)

\* The ids of the hits of the pages read so far, in the order returned.
FoundIds == Concat([n \in 1..Len(search.pages) |-> search.pages[n].hits])

MatchingIds == { row.id : row \in { x \in search.table : SearchMatches(x, search) } }

SearchLimit ==
    IF search.params.limit = Undefined THEN DefaultPageSize ELSE search.params.limit.value

\* C27: every page of searchProducts, searchShops and searchCategories has
\* at most limit hits, total = number of matching records, totalPages =
\* ceil(total / limit), and a page beyond totalPages is empty; the pages
\* 1..totalPages together hold every matching record exactly once; a hit
\* of searchProducts is not soft-deleted and its shop is active and not
\* soft-deleted.
C27_PageNumberPagination ==
    search.pc # "off" =>
      /\ \A n \in 1..Len(search.pages) :
            LET r == search.pages[n] IN
            /\ Len(r.hits) <= SearchLimit
            /\ r.total = Cardinality(MatchingIds)
            /\ r.totalPages * SearchLimit >= r.total
            /\ (r.totalPages - 1) * SearchLimit < r.total
            /\ r.totalPages >= 0
            /\ n > r.totalPages => r.hits = << >>
            /\ search.kind = "products" =>
                  \A i \in 1..Len(r.hits) : \A p \in search.table :
                      p.id = r.hits[i] =>
                          /\ p.deleted_at = NullTime
                          /\ p.shop.is_active
                          /\ p.shop.deleted_at = NullTime
      /\ search.pc = "done" =>
            /\ NoDuplicates(FoundIds)
            /\ { FoundIds[k] : k \in 1..Len(FoundIds) } = MatchingIds

BothClosed == \A c \in Consumers : worker.consumers[c].state = "closed"

Precedes(a, b) ==
    \E i, j \in 1..Len(boot.trace) : i < j /\ boot.trace[i] = a /\ boot.trace[j] = b

Happened(a) == \E i \in 1..Len(boot.trace) : boot.trace[i] = a

RejectedEnvironment ==
    \/ boot.env.AUTH_SECRET \in { Unset, "" }
    \/ boot.env.DATABASE_URL \in { Unset, "" }
    \/ boot.env.NODE_ENV = "production" /\ boot.env.AUTH_SECRET = DefaultAuthSecret

\* C29: the migrations start only after environment validation has passed
\* and the application command is executed only after the migrations have
\* succeeded; with AUTH_SECRET or DATABASE_URL unset or empty, or with
\* NODE_ENV = production and the default AUTH_SECRET, the script has exited
\* with status 1 without starting migrations or the application.
C29_StartupOrdering ==
    boot.pc \notin { "off", "start" } =>
      /\ Happened("migrate") => Precedes("validated", "migrate")
      /\ \A e \in { "exec npm start", "exec args" } :
            Happened(e) => Precedes("migrate", "migrated") /\ Precedes("migrated", e)
      /\ boot.pc = "app" <=> (Happened("exec npm start") \/ Happened("exec args"))
      /\ RejectedEnvironment =>
            /\ boot.pc = "exited"
            /\ boot.status = 1
            /\ ~Happened("migrate")
            /\ boot.trace = << "validation failed" >>

C29_Witness ==
    /\ boot.pc = "exited"
    /\ boot.env.NODE_ENV = "production"
    /\ boot.env.AUTH_SECRET = DefaultAuthSecret
    /\ boot.env.DATABASE_URL = "postgres://db"

\* The message the claim names for an AuthError of the given type.
ClaimedMessage(type) ==
    IF type = "CredentialsSignin" THEN "Invalid credentials"
    ELSE IF type = "AccessDenied" THEN "Access denied. Please verify your email first."
    ELSE "An authentication error occurred"

====
